---- MODULE Spec2Model ----
(***************************************************************************)
(* IOSSM mailbox driver of drivers/ddr/altera/iossm_mailbox.c.             *)
(*                                                                         *)
(* The module holds several specifications over one set of variables:      *)
(*   Spec      the mailbox transport io96b_mb_req, one action per register  *)
(*             phase, running against the hardware sequencer;               *)
(*   SpecInit  io96b_mb_init (interface enumeration);                       *)
(*   SpecTrig  trig_mem_cal (bounded re-calibration);                       *)
(*   SpecTech  get_mem_technology;                                          *)
(*   SpecWidth get_mem_width_info;                                          *)
(*   SpecEcc   ecc_enable_status;                                           *)
(*   SpecCal   io96b_cal_status (initial check of one instance);            *)
(*   SpecBoot  sdram_mmr_init_full on the DDR path, with init_mem_cal and   *)
(*             io96b_mb_init, up to the call of get_mem_technology;         *)
(*   SpecBist  bist_mem_init_start;                                         *)
(*   SpecReq   the CMD_REQ word written by the doorbell, for any fields;    *)
(*   SpecCkgen init_mem_cal behind the clock-lock gate                      *)
(*             (is_ddr_csr_clkgen_locked);                                  *)
(*   SpecLive  the waiting operations from their own entries, with weak     *)
(*             fairness on the program's steps, for termination.            *)
(* In the specifications of the callers a call of io96b_mb_req is one      *)
(* action whose result is drawn from MbOutcomes, the results the transport *)
(* can hand back (MbResultInOutcomes states this of Spec).                 *)
(***************************************************************************)
EXTENDS Integers, Sequences, FiniteSets, TLC

VARIABLES
    reg,        \* the mailbox registers of one IO96B instance
    mb_pc,      \* position inside io96b_mb_req ("idle" outside a call)
    args,       \* the arguments of the current call
    resp,       \* *resp of the current call
    ret,        \* ret of io96b_mb_req
    cmd_resp,   \* local cmd_resp of io96b_mb_req
    polls,      \* polls made by the current wait_for_bit_le32
    log,        \* register accesses of the current call, in order
    seq,        \* the sequencer: the command it has accepted and not answered
    ctrl,       \* struct io96b_info
    fpc,        \* position inside the running caller
    loc,        \* the caller's locals
    usr_resp,   \* the caller's struct io96b_mb_resp
    hist        \* commands sent and live status reads of the caller, in order

mbVars == <<reg, mb_pc, args, resp, ret, cmd_resp, polls, log, seq>>
fnVars == <<ctrl, fpc, loc, usr_resp, hist>>
vars == <<reg, mb_pc, args, resp, ret, cmd_resp, polls, log, seq,
          ctrl, fpc, loc, usr_resp, hist>>

(***************************************************************************)
(* Bounds of the model.                                                    *)
(***************************************************************************)
MaxPolls == 1       \* re-polls of one wait before the timer must have expired
MaxInterfaces == 4  \* memory interfaces of all instances together, in the callers' specifications
MaxCalPolls == 3    \* rounds of the loop of io96b_cal_status before its timer must have expired

(***************************************************************************)
(* 32-bit words, kept as two 16-bit halves.                                *)
(***************************************************************************)
W(h, l) == [hi |-> h, lo |-> l]
Zero == W(0, 0)

RECURSIVE Or16(_, _, _)
Or16(a, b, n) ==
    IF n = 0 THEN 0
    ELSE (IF (a % 2 = 1) \/ (b % 2 = 1) THEN 1 ELSE 0)
         + 2 * Or16(a \div 2, b \div 2, n - 1)

OrW(a, b) == W(Or16(a.hi, b.hi, 16), Or16(a.lo, b.lo, 16))

\* (u32)x << s for s in 0, 16, 24, 29 and x below 2^16
Shl(x, s) ==
    CASE s = 0  -> W(0, x % 65536)
      [] s = 16 -> W(x % 65536, 0)
      [] s = 24 -> W((x * 256) % 65536, 0)
      [] s = 29 -> W((x * 8192) % 65536, 0)

IOSSM_STATUS_COMMAND_RESPONSE_READY(w) == w.lo % 2
ClrReady(w) == [w EXCEPT !.lo = w.lo - (w.lo % 2)]
IOSSM_CMD_RESPONSE_DATA_SHORT(w) == w.hi

ETIMEDOUT == 110
EPERM == 1
ENOEXEC == 8

MAX_RETRY_COUNT == 3
NUM_CMD_RESPONSE_DATA == 3
NUM_PARAM_LOOP == 6
NUM_CMD_PARAM == 7
MAX_IO96B_SUPPORTED == 2
NUM_DDR_TYPE == 7

ParamRegs == <<"CMD_PARAM_0", "CMD_PARAM_1", "CMD_PARAM_2", "CMD_PARAM_3",
               "CMD_PARAM_4", "CMD_PARAM_5", "CMD_PARAM_6">>
DataRegs == <<"CMD_RESPONSE_DATA_0", "CMD_RESPONSE_DATA_1", "CMD_RESPONSE_DATA_2">>
ParamReg(n) == ParamRegs[n + 1]
DataReg(n) == DataRegs[n + 1]
RegNames == {"CMD_REQ", "CMD_RESPONSE_STATUS"}
            \cup {ParamRegs[n] : n \in 1..7} \cup {DataRegs[n] : n \in 1..3}

Rd(r, v) == [op |-> "r", reg |-> r, val |-> v]
Wr(r, v) == [op |-> "w", reg |-> r, val |-> v]

ZeroResp == [cmd_resp_status |-> Zero,
             cmd_resp_data |-> [n \in 0..(NUM_CMD_RESPONSE_DATA - 1) |-> Zero]]

(***************************************************************************)
(* io96b_mb_req: the arguments a call is made with.                        *)
(***************************************************************************)
ParamVals == {Zero, W(0, 64)}
ParamSlotSets == {{}, {0}, {NUM_CMD_PARAM - 1}, {0, NUM_CMD_PARAM - 1}, 0..(NUM_CMD_PARAM - 1)}
ParamVecs == {[n \in 0..(NUM_CMD_PARAM - 1) |-> IF n \in S THEN W(0, 64) ELSE Zero] :
                S \in ParamSlotSets}
RespLens == 0..(NUM_CMD_RESPONSE_DATA + 1)
Targets == {<<0, 0>>, <<1, 2>>}
ArgSet == {[ip_type |-> t[1], instance_id |-> t[2], usr_cmd_type |-> 1,
            usr_cmd_opcode |-> 1, cmd_param |-> p, resp_data_len |-> n] :
           t \in Targets, p \in ParamVecs, n \in RespLens}
NoArgs == [ip_type |-> 0, instance_id |-> 0, usr_cmd_type |-> 0,
           usr_cmd_opcode |-> 0, cmd_param |-> [n \in 0..(NUM_CMD_PARAM - 1) |-> Zero],
           resp_data_len |-> 0]

(***************************************************************************)
(* The hardware sequencer: it takes the command out of CMD_REQ, and later  *)
(* posts a status word with the ready bit set and the data words.          *)
(***************************************************************************)
SeqStatus == {W(s, 1) : s \in {1, 2}}
SeqData == {[n \in 0..(NUM_CMD_RESPONSE_DATA - 1) |-> W(n + 1, 16)]}

SeqAccept ==
    /\ reg["CMD_REQ"] # Zero
    /\ seq = Zero
    /\ seq' = reg["CMD_REQ"]
    /\ reg' = [reg EXCEPT !["CMD_REQ"] = Zero]
    /\ UNCHANGED <<mb_pc, args, resp, ret, cmd_resp, polls, log>>
    /\ UNCHANGED fnVars

SeqRespond ==
    /\ seq # Zero
    /\ \E st \in SeqStatus, d \in SeqData :
         reg' = [r \in RegNames |->
                   IF r = "CMD_RESPONSE_STATUS" THEN st
                   ELSE IF \E n \in 0..(NUM_CMD_RESPONSE_DATA - 1) : r = DataReg(n)
                        THEN d[CHOOSE n \in 0..(NUM_CMD_RESPONSE_DATA - 1) : r = DataReg(n)]
                        ELSE reg[r]]
    /\ seq' = Zero
    /\ UNCHANGED <<mb_pc, args, resp, ret, cmd_resp, polls, log>>
    /\ UNCHANGED fnVars

(***************************************************************************)
(* io96b_mb_req.                                                           *)
(***************************************************************************)
\* entry that leaves *resp as the caller passed it
MbEnterKeepsResp(a) ==
    /\ args' = a
    /\ resp' = resp
    /\ ret' = 0
    /\ polls' = 0
    /\ log' = <<>>
    /\ mb_pc' = "wait_idle"

\* entry: the response is zeroed, then the wait for CMD_REQ starts
MbEnter(a) ==
    /\ args' = a
    /\ resp' = ZeroResp
    /\ ret' = 0
    /\ polls' = 0
    /\ log' = <<>>
    /\ mb_pc' = "wait_idle"

Call ==
    /\ mb_pc \in {"idle", "done"}
    /\ \E a \in ArgSet : MbEnter(a)
    /\ UNCHANGED <<reg, cmd_resp, seq>>
    /\ UNCHANGED fnVars

\* the wait for CMD_REQ with its result ignored
WaitIdleUnchecked ==
    /\ mb_pc = "wait_idle"
    /\ log' = Append(log, Rd("CMD_REQ", reg["CMD_REQ"]))
    /\ ret' = 0
    /\ mb_pc' = "params"
    /\ polls' = 0
    /\ UNCHANGED <<reg, args, resp, cmd_resp, seq>>
    /\ UNCHANGED fnVars

\* wait_for_bit_le32(CMD_REQ, GENMASK(31, 0), 0, TIMEOUT): one read per step
WaitIdle ==
    /\ mb_pc = "wait_idle"
    /\ log' = Append(log, Rd("CMD_REQ", reg["CMD_REQ"]))
    /\ \/ /\ reg["CMD_REQ"] = Zero
          /\ ret' = 0
          /\ mb_pc' = "params"
          /\ polls' = 0
       \/ /\ reg["CMD_REQ"] # Zero
          /\ ret' = -ETIMEDOUT
          /\ mb_pc' = "done"
          /\ polls' = polls
       \/ /\ reg["CMD_REQ"] # Zero
          /\ polls < MaxPolls
          /\ ret' = ret
          /\ mb_pc' = mb_pc
          /\ polls' = polls + 1
    /\ UNCHANGED <<reg, args, resp, cmd_resp, seq>>
    /\ UNCHANGED fnVars

\* a parameter register written whatever the value
WritesParamAlways(n, v) == TRUE

\* if (cmd_param_n)
WritesParam(n, v) == v # Zero

\* the slots the loop for (i = 0; i < 6; i++) writes
ParamSlotsWritten(p) ==
    {n \in 0..(NUM_PARAM_LOOP - 1) : n < NUM_CMD_PARAM /\ WritesParam(n, p[n])}

RECURSIVE ParamWrites(_, _)
ParamWrites(p, n) ==
    IF n >= NUM_CMD_PARAM THEN <<>>
    ELSE (IF n \in ParamSlotsWritten(p) THEN <<Wr(ParamReg(n), p[n])>> ELSE <<>>)
         \o ParamWrites(p, n + 1)

WriteParams ==
    /\ mb_pc = "params"
    /\ reg' = [r \in RegNames |->
                 IF \E n \in ParamSlotsWritten(args.cmd_param) : r = ParamReg(n)
                 THEN args.cmd_param[CHOOSE n \in ParamSlotsWritten(args.cmd_param) : r = ParamReg(n)]
                 ELSE reg[r]]
    /\ log' = log \o ParamWrites(args.cmd_param, 0)
    /\ mb_pc' = "doorbell"
    /\ UNCHANGED <<args, resp, ret, cmd_resp, polls, seq>>
    /\ UNCHANGED fnVars

\* the request word without the ip_type field
CmdReqNoIpType(a) ==
    OrW(OrW(Shl(a.usr_cmd_opcode, 0), Shl(a.usr_cmd_type, 16)), Shl(a.instance_id, 24))

\* cmd_req = opcode << 0 | type << 16 | instance_id << 24 | ip_type << 29
CmdReq(a) ==
    OrW(OrW(OrW(Shl(a.usr_cmd_opcode, 0), Shl(a.usr_cmd_type, 16)),
            Shl(a.instance_id, 24)),
        Shl(a.ip_type, 29))

Doorbell ==
    /\ mb_pc = "doorbell"
    /\ reg' = [reg EXCEPT !["CMD_REQ"] = CmdReq(args)]
    /\ log' = Append(log, Wr("CMD_REQ", CmdReq(args)))
    /\ mb_pc' = "wait_ready"
    /\ polls' = 0
    /\ UNCHANGED <<args, resp, ret, cmd_resp, seq>>
    /\ UNCHANGED fnVars

\* the wait for the ready bit with its result ignored
WaitReadyUnchecked ==
    /\ mb_pc = "wait_ready"
    /\ log' = Append(log, Rd("CMD_RESPONSE_STATUS", reg["CMD_RESPONSE_STATUS"]))
    /\ ret' = 0
    /\ mb_pc' = "read_status"
    /\ UNCHANGED <<reg, args, resp, cmd_resp, polls, seq>>
    /\ UNCHANGED fnVars

\* wait_for_bit_le32(CMD_RESPONSE_STATUS, READY, 1, TIMEOUT); on a timeout
\* the status word is read once more for the diagnostics
WaitReady ==
    /\ mb_pc = "wait_ready"
    /\ LET st == reg["CMD_RESPONSE_STATUS"] IN
       \/ /\ IOSSM_STATUS_COMMAND_RESPONSE_READY(st) = 1
          /\ log' = Append(log, Rd("CMD_RESPONSE_STATUS", st))
          /\ ret' = 0
          /\ mb_pc' = "read_status"
          /\ UNCHANGED <<cmd_resp, polls>>
       \/ /\ IOSSM_STATUS_COMMAND_RESPONSE_READY(st) = 0
          /\ log' = log \o <<Rd("CMD_RESPONSE_STATUS", st), Rd("CMD_RESPONSE_STATUS", st)>>
          /\ cmd_resp' = st
          /\ ret' = -ETIMEDOUT
          /\ mb_pc' = "done"
          /\ UNCHANGED polls
       \/ /\ IOSSM_STATUS_COMMAND_RESPONSE_READY(st) = 0
          /\ polls < MaxPolls
          /\ log' = Append(log, Rd("CMD_RESPONSE_STATUS", st))
          /\ polls' = polls + 1
          /\ UNCHANGED <<cmd_resp, ret, mb_pc>>
    /\ UNCHANGED <<reg, args, resp, seq>>
    /\ UNCHANGED fnVars

ReadStatus ==
    /\ mb_pc = "read_status"
    /\ resp' = [resp EXCEPT !.cmd_resp_status = reg["CMD_RESPONSE_STATUS"]]
    /\ log' = Append(log, Rd("CMD_RESPONSE_STATUS", reg["CMD_RESPONSE_STATUS"]))
    /\ mb_pc' = "read_data"
    /\ UNCHANGED <<reg, args, ret, cmd_resp, polls, seq>>
    /\ UNCHANGED fnVars

\* every data register read whatever the length asked for
DataSlotsReadAll(len) == 0..(NUM_CMD_RESPONSE_DATA - 1)

\* for (i = 0; i < resp_data_len; i++) switch (i): cases 0..2 read a register
DataSlotsRead(len) == {n \in 0..(NUM_CMD_RESPONSE_DATA - 1) : n < len}

RECURSIVE DataReads(_, _, _)
DataReads(rg, len, n) ==
    IF n >= NUM_CMD_RESPONSE_DATA THEN <<>>
    ELSE (IF n \in DataSlotsRead(len) THEN <<Rd(DataReg(n), rg[DataReg(n)])>> ELSE <<>>)
         \o DataReads(rg, len, n + 1)

ReadData ==
    /\ mb_pc = "read_data"
    /\ resp' = [resp EXCEPT !.cmd_resp_data =
                  [n \in 0..(NUM_CMD_RESPONSE_DATA - 1) |->
                     IF n \in DataSlotsRead(args.resp_data_len)
                     THEN reg[DataReg(n)] ELSE resp.cmd_resp_data[n]]]
    /\ log' = log \o DataReads(reg, args.resp_data_len, 0)
    /\ mb_pc' = "ack"
    /\ UNCHANGED <<reg, args, ret, cmd_resp, polls, seq>>
    /\ UNCHANGED fnVars

\* the ready bit left as it was read
AckValueKept(st) == st

\* clrbits_le32(CMD_RESPONSE_STATUS, IOSSM_STATUS_COMMAND_RESPONSE_READY)
AckValue(st) == ClrReady(st)

\* the status word is read again, the ready bit is cleared and read back
Ack ==
    /\ mb_pc = "ack"
    /\ LET st == reg["CMD_RESPONSE_STATUS"] IN
       /\ resp' = [resp EXCEPT !.cmd_resp_status = st]
       /\ reg' = [reg EXCEPT !["CMD_RESPONSE_STATUS"] = AckValue(st)]
       /\ cmd_resp' = AckValue(st)
       /\ log' = log \o <<Rd("CMD_RESPONSE_STATUS", st),
                          Rd("CMD_RESPONSE_STATUS", st),
                          Wr("CMD_RESPONSE_STATUS", AckValue(st)),
                          Rd("CMD_RESPONSE_STATUS", AckValue(st))>>
    /\ mb_pc' = "done"
    /\ UNCHANGED <<args, ret, polls, seq>>
    /\ UNCHANGED fnVars

(***************************************************************************)
(* The callers' state: struct io96b_info and the locals of the running     *)
(* function.                                                               *)
(***************************************************************************)
Instances == 0..(MAX_IO96B_SUPPORTED - 1)
\* the interface slots a loop over num_mem_interface (at most 3) can index
IntfSlots == 0..2
\* what memory that was never written can hold
Garbage == {0, 7}

GarbageTable(g) ==
    [num_mem_interface |-> g % 4,
     ip_type |-> [s \in IntfSlots |-> g],
     ip_instance_id |-> [s \in IntfSlots |-> g]]

NoInstance == [cal_status |-> FALSE, size |-> 0, mb_ctrl |-> GarbageTable(0)]

NoCtrl == [num_instance |-> 0, overall_cal_status |-> FALSE, ddr_type |-> 0,
           ecc_status |-> FALSE, overall_size |-> 0,
           io96b |-> [n \in Instances |-> NoInstance]]

NoLocals == [i |-> 0, j |-> 0, k |-> 0, ret |-> 0, memory_size |-> 0,
             total_memory_size |-> 0, ecc_stat_set |-> FALSE,
             recal_success |-> FALSE, count |-> 0]

InitFn ==
    /\ ctrl = NoCtrl
    /\ fpc = "none"
    /\ loc = NoLocals
    /\ usr_resp = ZeroResp
    /\ hist = <<>>

InitMb ==
    /\ reg = [r \in RegNames |-> Zero]
    /\ mb_pc = "idle"
    /\ args = NoArgs
    /\ resp = ZeroResp
    /\ ret = 0
    /\ cmd_resp = Zero
    /\ polls = 0
    /\ log = <<>>
    /\ seq = Zero

Init == InitMb /\ InitFn

Next ==
    \/ Call
    \/ WaitIdle
    \/ WriteParams
    \/ Doorbell
    \/ WaitReady
    \/ ReadStatus
    \/ ReadData
    \/ Ack
    \/ SeqAccept
    \/ SeqRespond

Spec == Init /\ [][Next]_vars

(***************************************************************************)
(* The transport: claims C1 .. C4, checked under Spec.                     *)
(***************************************************************************)
WritesOf(r) == {k \in DOMAIN log : log[k].op = "w" /\ log[k].reg = r}
ReadsOf(r) == {k \in DOMAIN log : log[k].op = "r" /\ log[k].reg = r}
ParamSlots == 0..(NUM_CMD_PARAM - 1)
DataSlots == 0..(NUM_CMD_RESPONSE_DATA - 1)

\* C1: in every call, a parameter slot whose value is 0 gets no write to
\* its CMD_PARAM register.
C1_NoWriteForZeroParam ==
    \A n \in ParamSlots :
        args.cmd_param[n] = Zero => WritesOf(ParamReg(n)) = {}

C1_Witness ==
    /\ mb_pc = "done"
    /\ ret = 0
    /\ args.cmd_param[0] # Zero
    /\ args.cmd_param[1] = Zero
    /\ WritesOf(ParamReg(0)) # {}
    /\ WritesOf(ParamReg(1)) = {}

\* C2 as stated: every finished call has written the doorbell exactly once,
\* after a read of CMD_REQ that returned zero.
C2_EveryCallOneDoorbell ==
    mb_pc = "done" =>
        /\ Cardinality(WritesOf("CMD_REQ")) = 1
        /\ \A k \in WritesOf("CMD_REQ") :
             \E j \in ReadsOf("CMD_REQ") : j < k /\ log[j].val = Zero

\* C2 as amended: no call writes the doorbell twice; a doorbell write comes
\* after the call's last read of CMD_REQ, which returned zero; a
\* finished call has written the doorbell once when its wait for idle
\* succeeded and not at all when that wait timed out.
C2_OneDoorbellAfterIdle ==
    /\ Cardinality(WritesOf("CMD_REQ")) <= 1
    /\ \A k \in WritesOf("CMD_REQ") :
         \E j \in ReadsOf("CMD_REQ") :
             /\ j < k
             /\ log[j].val = Zero
             /\ \A m \in ReadsOf("CMD_REQ") : m < k => m <= j
    /\ mb_pc = "done" =>
         /\ (\E j \in ReadsOf("CMD_REQ") : log[j].val = Zero)
              => Cardinality(WritesOf("CMD_REQ")) = 1
         /\ (\A j \in ReadsOf("CMD_REQ") : log[j].val # Zero)
              => WritesOf("CMD_REQ") = {} /\ ret # 0
         /\ ret = 0 => Cardinality(WritesOf("CMD_REQ")) = 1

C2_Witness ==
    /\ mb_pc = "done"
    /\ ret = 0
    /\ Cardinality(WritesOf("CMD_REQ")) = 1
    /\ Cardinality(ReadsOf("CMD_REQ")) > 1

\* C3: when a call returns success it has cleared the ready bit: its one
\* write to CMD_RESPONSE_STATUS has the ready bit 0 and comes after its reads
\* of the status word into the response and of the data words, and the
\* status word read back before the return shows ready = 0.
C3_ReadyClearedOnSuccess ==
    (mb_pc = "done" /\ ret = 0) =>
        /\ Cardinality(WritesOf("CMD_RESPONSE_STATUS")) = 1
        /\ \A k \in WritesOf("CMD_RESPONSE_STATUS") :
             /\ IOSSM_STATUS_COMMAND_RESPONSE_READY(log[k].val) = 0
             /\ \A n \in DataSlots : \A j \in ReadsOf(DataReg(n)) : j < k
             /\ \E j \in ReadsOf("CMD_RESPONSE_STATUS") :
                  j < k /\ log[j].val = resp.cmd_resp_status
             /\ k + 1 = Len(log)
        /\ log[Len(log)] = Rd("CMD_RESPONSE_STATUS", cmd_resp)
        /\ IOSSM_STATUS_COMMAND_RESPONSE_READY(cmd_resp) = 0

C3_Witness ==
    /\ mb_pc = "done"
    /\ ret = 0
    /\ args.resp_data_len = 2
    /\ IOSSM_STATUS_COMMAND_RESPONSE_READY(resp.cmd_resp_status) = 1
    /\ IOSSM_STATUS_COMMAND_RESPONSE_READY(reg["CMD_RESPONSE_STATUS"]) = 0

\* C4 as stated: before the doorbell write of a call, every one of the 7
\* parameter slots whose value is non-zero has been written to its register.
C4_NonZeroParamsWrittenBeforeDoorbell ==
    \A k \in WritesOf("CMD_REQ") :
        \A n \in ParamSlots :
            args.cmd_param[n] # Zero =>
                \E j \in WritesOf(ParamReg(n)) :
                    j < k /\ log[j].val = args.cmd_param[n]

(***************************************************************************)
(* What a call of io96b_mb_req hands back to its caller: an error with the *)
(* response zeroed at entry, or success with the status word and the data  *)
(* words the call read; the words it did not read stay 0.                   *)
(***************************************************************************)
MbOutcomes(len, Sts, Ds) ==
    {[ret |-> -ETIMEDOUT, resp |-> ZeroResp]}
    \cup {[ret |-> 0,
           resp |-> [cmd_resp_status |-> st,
                     cmd_resp_data |-> [n \in DataSlots |->
                        IF n \in DataSlotsRead(len) THEN d[n] ELSE Zero]]] :
          st \in Sts, d \in Ds}

\* Spec hands back nothing else
MbResultInOutcomes ==
    mb_pc = "done" =>
        [ret |-> ret, resp |-> resp]
            \in MbOutcomes(args.resp_data_len, {resp.cmd_resp_status},
                           {[n \in DataSlots |-> reg[DataReg(n)]]})

\* one entry of hist: a mailbox command with its result, or a read of the
\* live calibration status register
Cmd(op, i, j, ip, id, o) ==
    [op |-> op, i |-> i, j |-> j, ip_type |-> ip, instance_id |-> id,
     ret |-> o.ret, resp |-> o.resp, off |-> Zero, val |-> 0]
LiveRead(i, j, off, v) ==
    [op |-> "readl", i |-> i, j |-> j, ip_type |-> 0, instance_id |-> 0,
     ret |-> 0, resp |-> ZeroResp, off |-> off, val |-> v]

(***************************************************************************)
(* io96b_mb_init.                                                          *)
(***************************************************************************)
\* FIELD_GET(INTF_IP_TYPE_MASK, w), FIELD_GET(INTF_INSTANCE_ID_MASK, w)
INTF_IP_TYPE(w) == (w.hi \div 8192) % 256
INTF_INSTANCE_ID(w) == ((w.hi \div 256) % 32) % 256

IntfWord(ip, id) == W(ip * 8192 + id * 256, 0)
IntfWords == {Zero, IntfWord(1, 0), IntfWord(5, 3)}
InitStatus == {W(s, 1) : s \in 0..3}
InitData == {[n \in DataSlots |-> IF n = 0 THEN a ELSE IF n = 1 THEN b ELSE IntfWord(1, 1)] :
             a \in IntfWords, b \in IntfWords}

\* for (k = 0; k < num_mem_interface; k++): slot j takes word k when its
\* IP type is not 0
RECURSIVE RecordInterfaces(_, _, _, _)
RecordInterfaces(tbl, data, k, j) ==
    IF k >= tbl.num_mem_interface THEN tbl
    ELSE IF INTF_IP_TYPE(data[k]) # 0
         THEN RecordInterfaces(
                  [tbl EXCEPT !.ip_type[j] = INTF_IP_TYPE(data[k]),
                              !.ip_instance_id[j] = INTF_INSTANCE_ID(data[k])],
                  data, k + 1, j + 1)
         ELSE RecordInterfaces(tbl, data, k + 1, j)

\* the table of one instance after its response
MbInitTable(tbl, r) ==
    RecordInterfaces(
        [tbl EXCEPT !.num_mem_interface =
            IOSSM_CMD_RESPONSE_DATA_SHORT(r.cmd_resp_status) % 4],
        r.cmd_resp_data, 0, 0)

\* the loop left after its first instance
MbInitOnlyFirst(c, i) == FALSE

\* for (i = 0; i < io96b_ctrl->num_instance; i++)
MbInitMore(c, i) == i < c.num_instance

MbInitEnter ==
    /\ fpc = "mb_init:entry"
    /\ loc' = [loc EXCEPT !.i = 0]
    /\ fpc' = IF ctrl.num_instance = 0 THEN "mb_init:done" ELSE "mb_init:query"
    /\ UNCHANGED <<ctrl, usr_resp, hist>>
    /\ UNCHANGED mbVars

\* one round of the loop over the instances: GET_MEM_INTF_INFO, then the table
MbInitQuery ==
    /\ fpc = "mb_init:query"
    /\ \E o \in MbOutcomes(2, InitStatus, InitData) :
         /\ usr_resp' = o.resp
         /\ hist' = Append(hist, Cmd("GET_MEM_INTF_INFO", loc.i, 0, 0, 0, o))
         /\ \/ /\ o.ret # 0
               /\ fpc' = "mb_init:hang"
               /\ UNCHANGED <<ctrl, loc>>
            \/ /\ o.ret = 0
               /\ ctrl' = [ctrl EXCEPT !.io96b[loc.i].mb_ctrl =
                              MbInitTable(ctrl.io96b[loc.i].mb_ctrl, o.resp)]
               /\ loc' = [loc EXCEPT !.i = loc.i + 1]
               /\ fpc' = IF MbInitMore(ctrl, loc.i + 1)
                         THEN "mb_init:query" ELSE "mb_init:done"
    /\ UNCHANGED mbVars

\* struct io96b_info as malloc and populate_ddr_handoff leave it
CtrlUninit ==
    {[num_instance |-> n, overall_cal_status |-> c, ddr_type |-> 0,
      ecc_status |-> FALSE, overall_size |-> 0,
      io96b |-> [x \in Instances |->
                   [cal_status |-> c, size |-> 0, mb_ctrl |-> GarbageTable(g[x])]]] :
     n \in 0..MAX_IO96B_SUPPORTED, c \in BOOLEAN, g \in [Instances -> Garbage]}

InitMbInit ==
    /\ InitMb
    /\ ctrl \in CtrlUninit
    /\ fpc = "mb_init:entry"
    /\ loc = NoLocals
    /\ usr_resp = ZeroResp
    /\ hist = <<>>

NextMbInit == MbInitEnter \/ MbInitQuery

SpecInit == InitMbInit /\ [][NextMbInit]_vars

\* the data words of a response that the interface loop looks at and whose
\* IP type is not 0, in order
RECURSIVE NonZeroWords(_, _)
NonZeroWords(r, k) ==
    IF k >= 2 \/ k >= IOSSM_CMD_RESPONSE_DATA_SHORT(r.cmd_resp_status) % 4 THEN <<>>
    ELSE (IF INTF_IP_TYPE(r.cmd_resp_data[k]) # 0 THEN <<r.cmd_resp_data[k]>> ELSE <<>>)
         \o NonZeroWords(r, k + 1)

\* C5 as stated: after io96b_mb_init the count num_mem_interface of every
\* instance is the number of response data words with a non-zero IP type, and
\* the recorded slots hold the IP type and instance id of those words.
C5_CountIsNonZeroWords ==
    fpc = "mb_init:done" =>
        \A x \in Instances : x < ctrl.num_instance =>
            LET words == NonZeroWords(hist[x + 1].resp, 0)
                tbl == ctrl.io96b[x].mb_ctrl
            IN /\ tbl.num_mem_interface = Len(words)
               /\ \A s \in 1..Len(words) :
                    /\ tbl.ip_type[s - 1] = INTF_IP_TYPE(words[s])
                    /\ tbl.ip_instance_id[s - 1] = INTF_INSTANCE_ID(words[s])

(***************************************************************************)
(* struct io96b_info when a query function is entered: the tables are      *)
(* those io96b_mb_init leaves, calibration has passed.                     *)
(***************************************************************************)
TableResponses ==
    {[cmd_resp_status |-> W(n, 1),
      cmd_resp_data |-> [k \in DataSlots |->
          IF k = 0 THEN IntfWord(1, 0) ELSE IF k = 1 THEN b ELSE Zero]] :
     n \in 0..3, b \in {Zero, IntfWord(5, 3)}}

TablesAfterInit ==
    {MbInitTable(GarbageTable(g), r) : g \in Garbage, r \in TableResponses}

RECURSIVE NumInterfaces(_, _)
NumInterfaces(c, x) ==
    IF x >= c.num_instance THEN 0
    ELSE c.io96b[x].mb_ctrl.num_mem_interface + NumInterfaces(c, x + 1)

CtrlAfterInit ==
    {c \in {[num_instance |-> n, overall_cal_status |-> TRUE, ddr_type |-> 0,
             ecc_status |-> FALSE, overall_size |-> 0,
             io96b |-> [x \in Instances |->
                 IF x < n
                 THEN [cal_status |-> TRUE, size |-> 0, mb_ctrl |-> t[x]]
                 ELSE NoInstance]] :
            n \in 0..MAX_IO96B_SUPPORTED, t \in [Instances -> TablesAfterInit]} :
        NumInterfaces(c, 0) <= MaxInterfaces}

\* the place the loops for (i ...) for (j ...) stand at, from (i, j) on: the
\* next interface, or <<num_instance, 0>> past the last one
RECURSIVE Pos(_, _, _)
Pos(c, i, j) ==
    IF i >= c.num_instance THEN <<c.num_instance, 0>>
    ELSE IF j < c.io96b[i].mb_ctrl.num_mem_interface THEN <<i, j>>
    ELSE Pos(c, i + 1, 0)

AtEnd(c, p) == p[1] >= c.num_instance

IpTypeAt(c, i, j) == c.io96b[i].mb_ctrl.ip_type[j]
InstanceIdAt(c, i, j) == c.io96b[i].mb_ctrl.ip_instance_id[j]

NoData == {[n \in DataSlots |-> Zero]}

(***************************************************************************)
(* get_mem_technology.  ddr_type holds a pointer into ddr_type_list: the   *)
(* index of the entry, or NUM_DDR_TYPE for a pointer to no entry.          *)
(***************************************************************************)
DDR_UNKNOWN == 6

\* ddr_type_list[c]: past the end of the list the read yields any pointer
DdrTypeListAt(c) == IF c < NUM_DDR_TYPE THEN {c} ELSE 0..NUM_DDR_TYPE

\* !strcmp(p, "UNKNOWN"): undefined for a pointer to no entry
IsUnknown(p) ==
    IF p = DDR_UNKNOWN THEN {TRUE} ELSE IF p < NUM_DDR_TYPE THEN {FALSE} ELSE BOOLEAN

\* the aggregate left as it is
TechSeedNever(unknown, ptr, cur) == cur

\* if (!strcmp(ddr_type, "UNKNOWN")) ddr_type = ddr_type_list[ddr_type_ret]
TechSeed(unknown, ptr, cur) == IF unknown THEN ptr ELSE cur

TechStatus == {W(c, 1) : c \in (0..7) \cup {9}}
DdrTypeRet(st) == IOSSM_CMD_RESPONSE_DATA_SHORT(st) % 8

TechEnter ==
    /\ fpc = "tech:entry"
    /\ ctrl' = [ctrl EXCEPT !.ddr_type = DDR_UNKNOWN]
    /\ LET p == Pos(ctrl, 0, 0) IN
       /\ loc' = [loc EXCEPT !.i = p[1], !.j = p[2], !.ret = 0]
       /\ fpc' = IF AtEnd(ctrl, p) THEN "tech:done" ELSE "tech:query"
    /\ UNCHANGED <<usr_resp, hist>>
    /\ UNCHANGED mbVars

TechQuery ==
    /\ fpc = "tech:query"
    /\ \E o \in MbOutcomes(0, TechStatus, NoData) :
         /\ usr_resp' = o.resp
         /\ hist' = Append(hist, Cmd("GET_MEM_TECHNOLOGY", loc.i, loc.j,
                                     IpTypeAt(ctrl, loc.i, loc.j),
                                     InstanceIdAt(ctrl, loc.i, loc.j), o))
         /\ \/ /\ o.ret # 0
               /\ loc' = [loc EXCEPT !.ret = o.ret]
               /\ fpc' = "tech:done"
               /\ UNCHANGED ctrl
            \/ /\ o.ret = 0
               /\ \E ptr \in DdrTypeListAt(DdrTypeRet(o.resp.cmd_resp_status)),
                     unknown \in IsUnknown(ctrl.ddr_type) :
                    LET seeded == TechSeed(unknown, ptr, ctrl.ddr_type)
                        p == Pos(ctrl, loc.i, loc.j + 1)
                    IN /\ ctrl' = [ctrl EXCEPT !.ddr_type = seeded]
                       /\ IF ptr # seeded
                          THEN /\ loc' = [loc EXCEPT !.ret = -ENOEXEC]
                               /\ fpc' = "tech:done"
                          ELSE /\ loc' = [loc EXCEPT !.i = p[1], !.j = p[2], !.ret = 0]
                               /\ fpc' = IF AtEnd(ctrl, p) THEN "tech:done" ELSE "tech:query"
    /\ UNCHANGED mbVars

InitQuerier(entry) ==
    /\ InitMb
    /\ ctrl \in CtrlAfterInit
    /\ fpc = entry
    /\ loc = NoLocals
    /\ usr_resp = ZeroResp
    /\ hist = <<>>

InitTech == InitQuerier("tech:entry")
NextTech == TechEnter \/ TechQuery
SpecTech == InitTech /\ [][NextTech]_vars

\* the DDR type code the p-th query of the call reported
TypeReported(p) == DdrTypeRet(hist[p].resp.cmd_resp_status)
AllQueriesOk == \A p \in DOMAIN hist : hist[p].ret = 0

\* C7 as stated: the first interface's DDR type seeds the aggregate, and a
\* later interface reporting another type of the supported list makes the
\* call return -ENOEXEC, whatever the two type codes are.
C7_LaterMismatchIsError ==
    \A p \in DOMAIN hist :
        (/\ p > 1
         /\ hist[p].ret = 0
         /\ TypeReported(1) < NUM_DDR_TYPE
         /\ TypeReported(p) < NUM_DDR_TYPE
         /\ TypeReported(p) # TypeReported(1))
        => (fpc = "tech:done" /\ loc.ret = -ENOEXEC)

\* C8: when every query succeeds and every interface reports the same type T
\* of the supported list, get_mem_technology returns 0 after querying every
\* interface, with ddr_type = T.
C8_AgreeingTypesSucceed ==
    \A T \in 0..(NUM_DDR_TYPE - 1) :
        (/\ fpc = "tech:done"
         /\ hist # <<>>
         /\ AllQueriesOk
         /\ \A p \in DOMAIN hist : TypeReported(p) = T)
        => (/\ loc.ret = 0
            /\ ctrl.ddr_type = T
            /\ Len(hist) = NumInterfaces(ctrl, 0))

C8_Witness ==
    /\ fpc = "tech:done"
    /\ Len(hist) = 2
    /\ AllQueriesOk
    /\ \A p \in DOMAIN hist : TypeReported(p) = 1
    /\ loc.ret = 0
    /\ ctrl.ddr_type = 1

(***************************************************************************)
(* ecc_enable_status.                                                      *)
(***************************************************************************)
EccStatus == {W(c, 1) : c \in {0, 1, 2, 4}}

\* (IOSSM_CMD_RESPONSE_DATA_SHORT(status) & GENMASK(1, 0)) == 0 ? false : true
EccStat(st) == (IOSSM_CMD_RESPONSE_DATA_SHORT(st) % 4) # 0

\* the aggregate seeded again as long as it is false
EccSeedsWhileFalse(set, cur) == ~cur

\* if (!ecc_stat_set)
EccSeeds(set, cur) == ~set

EccEnter ==
    /\ fpc = "ecc:entry"
    /\ ctrl' = [ctrl EXCEPT !.ecc_status = FALSE]
    /\ LET p == Pos(ctrl, 0, 0) IN
       /\ loc' = [loc EXCEPT !.i = p[1], !.j = p[2], !.ret = 0, !.ecc_stat_set = FALSE]
       /\ fpc' = IF AtEnd(ctrl, p) THEN "ecc:done" ELSE "ecc:query"
    /\ UNCHANGED <<usr_resp, hist>>
    /\ UNCHANGED mbVars

EccQuery ==
    /\ fpc = "ecc:query"
    /\ \E o \in MbOutcomes(0, EccStatus, NoData) :
         /\ usr_resp' = o.resp
         /\ hist' = Append(hist, Cmd("ECC_ENABLE_STATUS", loc.i, loc.j,
                                     IpTypeAt(ctrl, loc.i, loc.j),
                                     InstanceIdAt(ctrl, loc.i, loc.j), o))
         /\ \/ /\ o.ret # 0
               /\ loc' = [loc EXCEPT !.ret = o.ret]
               /\ fpc' = "ecc:done"
               /\ UNCHANGED ctrl
            \/ /\ o.ret = 0
               /\ LET ecc_stat == EccStat(o.resp.cmd_resp_status)
                      seeded == IF EccSeeds(loc.ecc_stat_set, ctrl.ecc_status)
                                THEN ecc_stat ELSE ctrl.ecc_status
                      p == Pos(ctrl, loc.i, loc.j + 1)
                  IN /\ ctrl' = [ctrl EXCEPT !.ecc_status = seeded]
                     /\ IF ecc_stat # seeded
                        THEN /\ loc' = [loc EXCEPT !.ret = -ENOEXEC, !.ecc_stat_set = TRUE]
                             /\ fpc' = "ecc:done"
                        ELSE /\ loc' = [loc EXCEPT !.i = p[1], !.j = p[2], !.ret = 0,
                                                   !.ecc_stat_set = TRUE]
                             /\ fpc' = IF AtEnd(ctrl, p) THEN "ecc:done" ELSE "ecc:query"
    /\ UNCHANGED mbVars

InitEcc == InitQuerier("ecc:entry")
NextEcc == EccEnter \/ EccQuery
SpecEcc == InitEcc /\ [][NextEcc]_vars

\* the ECC-enabled flag the p-th query of the call reported
EccReported(p) == EccStat(hist[p].resp.cmd_resp_status)

\* C9: the first interface's ECC flag seeds ecc_status; a later interface
\* reporting another flag makes ecc_enable_status return -ENOEXEC; when
\* every query succeeds and all flags agree the call returns 0 after
\* querying every interface, with ecc_status the common flag.
C9_EccEstablishThenVerify ==
    /\ (hist # <<>> /\ hist[1].ret = 0) => ctrl.ecc_status = EccReported(1)
    /\ \A p \in DOMAIN hist :
         (p > 1 /\ hist[p].ret = 0 /\ EccReported(p) # EccReported(1))
         => (fpc = "ecc:done" /\ loc.ret = -ENOEXEC)
    /\ (/\ fpc = "ecc:done"
        /\ hist # <<>>
        /\ AllQueriesOk
        /\ \A p \in DOMAIN hist : EccReported(p) = EccReported(1))
       => (/\ loc.ret = 0
           /\ ctrl.ecc_status = EccReported(1)
           /\ Len(hist) = NumInterfaces(ctrl, 0))

C9_Witness ==
    /\ fpc = "ecc:done"
    /\ Len(hist) = 3
    /\ AllQueriesOk
    /\ ~EccReported(1)
    /\ ~EccReported(2)
    /\ EccReported(3)
    /\ loc.ret = -ENOEXEC
    /\ ~ctrl.ecc_status

(***************************************************************************)
(* get_mem_width_info.                                                     *)
(***************************************************************************)
WidthStatus == {W(0, 1)}
WidthData == {[n \in DataSlots |-> IF n = 1 THEN W(0, w) ELSE W(0, 16)] :
              w \in {0, 4, 8, 264}}

\* usr_resp.cmd_resp_data[1] & GENMASK(7, 0)
WidthOf(r) == r.cmd_resp_data[1].lo % 256

\* the last width kept instead of the sum
WidthLast(acc, w) == w

\* memory_size = memory_size + width, in a u16
WidthAdd(acc, w) == (acc + w) % 65536

\* the loop over the instances, from instance i on with its memory_size 0:
\* an instance without interfaces goes straight to its end
WidthAt(c, i) ==
    IF c.io96b[i].mb_ctrl.num_mem_interface > 0 THEN "width:query" ELSE "width:instance"

WidthEnter ==
    /\ fpc = "width:entry"
    /\ IF ctrl.num_instance = 0
       THEN /\ loc' = [loc EXCEPT !.i = 0, !.j = 0, !.ret = -ENOEXEC,
                                  !.memory_size = 0, !.total_memory_size = 0]
            /\ fpc' = "width:done"
       ELSE /\ loc' = [loc EXCEPT !.i = 0, !.j = 0, !.ret = 0,
                                  !.memory_size = 0, !.total_memory_size = 0]
            /\ fpc' = WidthAt(ctrl, 0)
    /\ UNCHANGED <<ctrl, usr_resp, hist>>
    /\ UNCHANGED mbVars

WidthQuery ==
    /\ fpc = "width:query"
    /\ \E o \in MbOutcomes(2, WidthStatus, WidthData) :
         /\ usr_resp' = o.resp
         /\ hist' = Append(hist, Cmd("GET_MEM_WIDTH_INFO", loc.i, loc.j,
                                     IpTypeAt(ctrl, loc.i, loc.j),
                                     InstanceIdAt(ctrl, loc.i, loc.j), o))
         /\ \/ /\ o.ret # 0
               /\ loc' = [loc EXCEPT !.ret = o.ret]
               /\ fpc' = "width:done"
            \/ /\ o.ret = 0
               /\ loc' = [loc EXCEPT !.ret = 0, !.j = loc.j + 1,
                             !.memory_size = WidthAdd(loc.memory_size, WidthOf(o.resp))]
               /\ fpc' = IF loc.j + 1 < ctrl.io96b[loc.i].mb_ctrl.num_mem_interface
                         THEN "width:query" ELSE "width:instance"
    /\ UNCHANGED ctrl
    /\ UNCHANGED mbVars

\* after the interfaces of instance i: its size, the total, the next instance
\* or the end of the function
WidthInstance ==
    /\ fpc = "width:instance"
    /\ IF loc.memory_size = 0
       THEN /\ loc' = [loc EXCEPT !.ret = -ENOEXEC]
            /\ fpc' = "width:done"
            /\ UNCHANGED ctrl
       ELSE LET total == (loc.total_memory_size + loc.memory_size) % 65536
                sized == [ctrl EXCEPT !.io96b[loc.i].size = loc.memory_size]
            IN IF loc.i + 1 < ctrl.num_instance
               THEN /\ ctrl' = sized
                    /\ loc' = [loc EXCEPT !.i = loc.i + 1, !.j = 0, !.memory_size = 0,
                                          !.total_memory_size = total]
                    /\ fpc' = WidthAt(ctrl, loc.i + 1)
               ELSE /\ loc' = [loc EXCEPT !.i = loc.i + 1, !.total_memory_size = total,
                                          !.ret = IF total = 0 THEN -ENOEXEC ELSE loc.ret]
                    /\ ctrl' = IF total = 0 THEN sized
                               ELSE [sized EXCEPT !.overall_size = total]
                    /\ fpc' = "width:done"
    /\ UNCHANGED <<usr_resp, hist>>
    /\ UNCHANGED mbVars

InitWidth == InitQuerier("width:entry")
NextWidth == WidthEnter \/ WidthQuery \/ WidthInstance
SpecWidth == InitWidth /\ [][NextWidth]_vars

\* the sum of the widths the queries of instance x reported, from entry p on
RECURSIVE WidthsReported(_, _)
WidthsReported(x, p) ==
    IF p > Len(hist) THEN 0
    ELSE (IF hist[p].i = x /\ hist[p].ret = 0 THEN WidthOf(hist[p].resp) ELSE 0)
         + WidthsReported(x, p + 1)

RECURSIVE SizesFrom(_)
SizesFrom(x) ==
    IF x >= ctrl.num_instance THEN 0 ELSE ctrl.io96b[x].size + SizesFrom(x + 1)

QueriesOf(x) == {p \in DOMAIN hist : hist[p].i = x}

\* C10: when get_mem_width_info returns 0 every interface has been queried,
\* the size of each instance is the sum of the widths its interfaces
\* reported, and overall_size is the sum of the sizes of the instances.
C10_SizesAreSums ==
    (fpc = "width:done" /\ loc.ret = 0) =>
        /\ \A x \in Instances : x < ctrl.num_instance =>
              /\ Cardinality(QueriesOf(x)) = ctrl.io96b[x].mb_ctrl.num_mem_interface
              /\ ctrl.io96b[x].size = WidthsReported(x, 1)
        /\ ctrl.overall_size = SizesFrom(0)
        /\ ctrl.overall_size = WidthsReported(0, 1) + WidthsReported(1, 1)

C10_Witness ==
    /\ fpc = "width:done"
    /\ loc.ret = 0
    /\ ctrl.num_instance = 1
    /\ Len(hist) = 3
    /\ WidthOf(hist[1].resp) = 8
    /\ WidthOf(hist[2].resp) = 8
    /\ WidthOf(hist[3].resp) = 4
    /\ ctrl.io96b[0].size = 20
    /\ ctrl.overall_size = 20

(***************************************************************************)
(* trig_mem_cal.  hist holds the commands and the live status reads of the *)
(* interface being recalibrated; it starts again at each interface.        *)
(***************************************************************************)
INTF_MEM_CAL_STATUS_SUCCESS == 1

CalStatus == {W(0, 1)}
\* the response of GET_MEM_CAL_STATUS: one status register offset per word
CalData == {[n \in DataSlots |-> W(0, 1024 * (n + 1) + b)] : b \in {0, 16}}
TrigStatus == {W(1, 1)}
\* what the live calibration status register can read as
LiveVals == {INTF_MEM_CAL_STATUS_SUCCESS, 2, 256 + INTF_MEM_CAL_STATUS_SUCCESS}

\* the offset always taken from the first data word
CalStatOffsetFirst(r, j) == r.cmd_resp_data[0]

\* cal_stat_offset = usr_resp.cmd_resp_data[j]
CalStatOffset(r, j) == r.cmd_resp_data[j]

\* u8 cal_stat = readl(...)
CalStat(v) == v % 256

\* a retry loop that stops one attempt early
RetriesLeftShort(k) == k < MAX_RETRY_COUNT - 1

\* for (k = 0; k < MAX_RETRY_COUNT; k++)
RetriesLeft(k) == k < MAX_RETRY_COUNT

\* the locals of trig_mem_cal, and what the call has done so far: the flags
\* it was entered with, the interfaces whose live status read as success,
\* the instances it has sent a command to
TrigLocals ==
    [entry |-> [x \in Instances |-> FALSE], recovered |-> {}, commanded |-> {}]
    @@ NoLocals

TrigEnter ==
    /\ fpc = "trig:entry"
    /\ loc' = [loc EXCEPT !.i = 0, !.j = 0, !.k = 0, !.ret = 0, !.count = 0,
                          !.entry = [x \in Instances |-> ctrl.io96b[x].cal_status],
                          !.recovered = {}, !.commanded = {}]
    /\ fpc' = "trig:instance"
    /\ UNCHANGED <<ctrl, usr_resp, hist>>
    /\ UNCHANGED mbVars

\* every instance marked passed at once
TrigPassedAll(c, i) ==
    [c EXCEPT !.io96b = [x \in Instances |-> [c.io96b[x] EXCEPT !.cal_status = TRUE]],
              !.overall_cal_status = TRUE]

\* instance i passed: its flag, the overall flag, the next instance
TrigPassed(c, i) ==
    [c EXCEPT !.io96b[i].cal_status = TRUE, !.overall_cal_status = TRUE]

\* the head of the loop over the instances
TrigInstance ==
    /\ fpc = "trig:instance"
    /\ IF loc.i >= ctrl.num_instance
       THEN /\ fpc' = "trig:done"
            /\ UNCHANGED <<ctrl, loc>>
       ELSE IF ctrl.io96b[loc.i].cal_status
       THEN /\ loc' = [loc EXCEPT !.i = loc.i + 1]
            /\ fpc' = "trig:instance"
            /\ UNCHANGED ctrl
       ELSE IF ctrl.io96b[loc.i].mb_ctrl.num_mem_interface = 0
       THEN /\ ctrl' = TrigPassed(ctrl, loc.i)
            /\ loc' = [loc EXCEPT !.i = loc.i + 1, !.j = 0, !.count = loc.count + 1]
            /\ fpc' = "trig:instance"
       ELSE /\ loc' = [loc EXCEPT !.j = 0]
            /\ fpc' = "trig:status"
            /\ UNCHANGED ctrl
    /\ hist' = <<>>
    /\ UNCHANGED usr_resp
    /\ UNCHANGED mbVars

\* GET_MEM_CAL_STATUS for interface j, before its retry loop
TrigGetStatus ==
    /\ fpc = "trig:status"
    /\ \E o \in MbOutcomes(2, CalStatus, CalData) :
         /\ usr_resp' = o.resp
         /\ hist' = <<Cmd("GET_MEM_CAL_STATUS", loc.i, loc.j, 0, 0, o)>>
         /\ IF o.ret # 0
            THEN /\ loc' = [loc EXCEPT !.ret = o.ret,
                                       !.commanded = loc.commanded \cup {loc.i}]
                 /\ fpc' = "trig:done"
            ELSE /\ loc' = [loc EXCEPT !.ret = 0, !.recal_success = FALSE, !.k = 0,
                                       !.commanded = loc.commanded \cup {loc.i}]
                 /\ fpc' = IF RetriesLeft(0) THEN "trig:read" ELSE "trig:next"
    /\ UNCHANGED ctrl
    /\ UNCHANGED mbVars

\* the read of the live status register at the offset of response word j
TrigReadLive ==
    /\ fpc = "trig:read"
    /\ \E v \in LiveVals :
         /\ hist' = Append(hist, LiveRead(loc.i, loc.j, CalStatOffset(usr_resp, loc.j), v))
         /\ IF CalStat(v) = INTF_MEM_CAL_STATUS_SUCCESS
            THEN /\ loc' = [loc EXCEPT !.recal_success = TRUE,
                               !.recovered = loc.recovered \cup {<<loc.i, loc.j>>}]
                 /\ fpc' = "trig:next"
            ELSE /\ fpc' = "trig:trigger"
                 /\ UNCHANGED loc
    /\ UNCHANGED <<ctrl, usr_resp>>
    /\ UNCHANGED mbVars

TrigTrigger ==
    /\ fpc = "trig:trigger"
    /\ \E o \in MbOutcomes(2, TrigStatus, NoData) :
         /\ usr_resp' = o.resp
         /\ hist' = Append(hist, Cmd("TRIG_MEM_CAL", loc.i, loc.j,
                                     IpTypeAt(ctrl, loc.i, loc.j),
                                     InstanceIdAt(ctrl, loc.i, loc.j), o))
         /\ loc' = [loc EXCEPT !.ret = o.ret]
         /\ fpc' = IF o.ret # 0 THEN "trig:done" ELSE "trig:requery"
    /\ UNCHANGED ctrl
    /\ UNCHANGED mbVars

TrigRequery ==
    /\ fpc = "trig:requery"
    /\ \E o \in MbOutcomes(2, CalStatus, CalData) :
         /\ usr_resp' = o.resp
         /\ hist' = Append(hist, Cmd("GET_MEM_CAL_STATUS", loc.i, loc.j, 0, 0, o))
         /\ IF o.ret # 0
            THEN /\ loc' = [loc EXCEPT !.ret = o.ret]
                 /\ fpc' = "trig:done"
            ELSE /\ loc' = [loc EXCEPT !.ret = 0, !.k = loc.k + 1]
                 /\ fpc' = IF RetriesLeft(loc.k + 1) THEN "trig:read" ELSE "trig:next"
    /\ UNCHANGED ctrl
    /\ UNCHANGED mbVars

\* after the retry loop of interface j
TrigNext ==
    /\ fpc = "trig:next"
    /\ IF ~loc.recal_success
       THEN /\ loc' = [loc EXCEPT !.ret = -EPERM]
            /\ fpc' = "trig:done"
            /\ UNCHANGED <<ctrl, hist>>
       ELSE IF loc.j + 1 < ctrl.io96b[loc.i].mb_ctrl.num_mem_interface
       THEN /\ loc' = [loc EXCEPT !.j = loc.j + 1]
            /\ fpc' = "trig:status"
            /\ hist' = <<>>
            /\ UNCHANGED ctrl
       ELSE /\ ctrl' = TrigPassed(ctrl, loc.i)
            /\ loc' = [loc EXCEPT !.i = loc.i + 1, !.j = loc.j + 1,
                                  !.count = loc.count + 1]
            /\ fpc' = "trig:instance"
            /\ hist' = <<>>
    /\ UNCHANGED usr_resp
    /\ UNCHANGED mbVars

\* struct io96b_info when trig_mem_cal is entered: any instance may have
\* failed its initial calibration
CtrlBeforeTrig ==
    {[c EXCEPT !.overall_cal_status = o,
               !.io96b = [x \in Instances |->
                   [c.io96b[x] EXCEPT !.cal_status = (x < c.num_instance /\ f[x])]]] :
     c \in CtrlAfterInit, o \in BOOLEAN, f \in [Instances -> BOOLEAN]}

InitTrig ==
    /\ InitMb
    /\ ctrl \in CtrlBeforeTrig
    /\ fpc = "trig:entry"
    /\ loc = TrigLocals
    /\ usr_resp = ZeroResp
    /\ hist = <<>>

NextTrig ==
    \/ TrigEnter
    \/ TrigInstance
    \/ TrigGetStatus
    \/ TrigReadLive
    \/ TrigTrigger
    \/ TrigRequery
    \/ TrigNext

SpecTrig == InitTrig /\ [][NextTrig]_vars

\* the live status reads of the current interface, those that reported
\* failure, and the TRIG_MEM_CAL commands issued for it
LiveReads == {p \in DOMAIN hist : hist[p].op = "readl"}
FailedReads == {p \in LiveReads : CalStat(hist[p].val) # INTF_MEM_CAL_STATUS_SUCCESS}
Triggers == {p \in DOMAIN hist : hist[p].op = "TRIG_MEM_CAL"}
Recovered == fpc = "trig:next" /\ loc.recal_success

\* C6 as stated: k failing reads and then success with k < 3 recover the
\* interface after k+1 reads and k triggers; 3 failing reads make
\* trig_mem_cal return -EPERM after at most 3 triggers.
C6_RetryThenExhausted ==
    /\ (LiveReads # FailedReads) =>
          /\ Recovered
          /\ Cardinality(FailedReads) < MAX_RETRY_COUNT
          /\ Cardinality(LiveReads) = Cardinality(FailedReads) + 1
          /\ Cardinality(Triggers) = Cardinality(FailedReads)
    /\ (fpc = "trig:done" /\ Cardinality(FailedReads) >= MAX_RETRY_COUNT) =>
          /\ loc.ret = -EPERM
          /\ Cardinality(Triggers) <= MAX_RETRY_COUNT

\* every mailbox command issued for the current interface succeeded
CommandsOk == \A p \in DOMAIN hist : hist[p].ret = 0

\* C6: k failing reads and then success with k < 3 recover the interface
\* after k+1 reads and k triggers, and only such a run recovers it; 3 failing
\* reads whose trigger and re-query commands all succeed make trig_mem_cal
\* return -EPERM, and nothing short of 3 failing reads does; there are
\* never more than 3 reads or 3 triggers.
C6_RetryBounded ==
    /\ (LiveReads # FailedReads) =>
          /\ Recovered
          /\ Cardinality(FailedReads) < MAX_RETRY_COUNT
          /\ Cardinality(LiveReads) = Cardinality(FailedReads) + 1
          /\ Cardinality(Triggers) = Cardinality(FailedReads)
    /\ Recovered => LiveReads # FailedReads
    /\ (fpc = "trig:done" /\ Cardinality(FailedReads) >= MAX_RETRY_COUNT /\ CommandsOk) =>
          loc.ret = -EPERM
    /\ (fpc = "trig:done" /\ loc.ret = -EPERM) =>
          Cardinality(FailedReads) = MAX_RETRY_COUNT
    /\ Cardinality(LiveReads) <= MAX_RETRY_COUNT
    /\ Cardinality(Triggers) <= MAX_RETRY_COUNT

C6_Witness ==
    /\ Recovered
    /\ Cardinality(FailedReads) = 2
    /\ Cardinality(LiveReads) = 3
    /\ Cardinality(Triggers) = 2
    /\ loc.j = 1

C6_WitnessExhausted ==
    /\ fpc = "trig:done"
    /\ Cardinality(FailedReads) = MAX_RETRY_COUNT
    /\ CommandsOk
    /\ loc.ret = -EPERM

(***************************************************************************)
(* The error paths of io96b_mb_req and calls that follow one another.      *)
(***************************************************************************)
AccessesOf(r) == {k \in DOMAIN log : log[k].reg = r}
AllWrites == {k \in DOMAIN log : log[k].op = "w"}

\* the call has returned and its wait for idle never read CMD_REQ as zero
NotReadyPath ==
    /\ mb_pc = "done"
    /\ log # <<>>
    /\ \A k \in ReadsOf("CMD_REQ") : log[k].val # Zero

\* C14: a call whose wait for an all-zero CMD_REQ times out returns a
\* non-zero error, has written no register (no CMD_PARAM, no doorbell), has
\* not touched CMD_RESPONSE_STATUS, and hands back an all-zero response.
C14_NotReadyLeavesMailboxAlone ==
    NotReadyPath =>
        /\ ret # 0
        /\ AllWrites = {}
        /\ AccessesOf("CMD_RESPONSE_STATUS") = {}
        /\ \A n \in ParamSlots : AccessesOf(ParamReg(n)) = {}
        /\ resp = ZeroResp

\* a NotReady return of a call that followed a successful call and a call
\* whose doorbell was never taken
C14_Witness ==
    /\ NotReadyPath
    /\ ret = -ETIMEDOUT
    /\ reg["CMD_REQ"] # Zero
    /\ reg["CMD_RESPONSE_STATUS"] # Zero
    /\ args.cmd_param[0] # Zero

\* the call has returned, it rang the doorbell, and no read of the status
\* register showed the ready bit
TimeoutPath ==
    /\ mb_pc = "done"
    /\ WritesOf("CMD_REQ") # {}
    /\ \A k \in ReadsOf("CMD_RESPONSE_STATUS") :
          IOSSM_STATUS_COMMAND_RESPONSE_READY(log[k].val) = 0

\* C15: a call whose wait for the ready bit times out returns a non-zero
\* error; it has only read the status register, has read no
\* CMD_RESPONSE_DATA register, and hands back an all-zero response.
C15_TimeoutOnlyReadsStatus ==
    TimeoutPath =>
        /\ ret # 0
        /\ WritesOf("CMD_RESPONSE_STATUS") = {}
        /\ ReadsOf("CMD_RESPONSE_STATUS") # {}
        /\ \A n \in DataSlots : AccessesOf(DataReg(n)) = {}
        /\ resp = ZeroResp

\* a Timeout return of a call that asked for data words, with data of an
\* earlier command still in the data registers
C15_Witness ==
    /\ TimeoutPath
    /\ ret = -ETIMEDOUT
    /\ args.resp_data_len = NUM_CMD_RESPONSE_DATA
    /\ reg[DataReg(0)] # Zero
    /\ Len(log) >= 3

\* C16: a call that asks for more than 3 response data words returns a
\* non-zero error.
C16_TooManyDataWordsRejected ==
    (mb_pc = "done" /\ args.resp_data_len > NUM_CMD_RESPONSE_DATA) => ret # 0

\* a command is in flight from its doorbell write until the sequencer has
\* answered it
InFlightInRegister == reg["CMD_REQ"] # Zero
InFlightInSequencer == seq # Zero
DoorbellJustRung ==
    /\ mb_pc = "wait_ready"
    /\ log # <<>>
    /\ log[Len(log)].op = "w"
    /\ log[Len(log)].reg = "CMD_REQ"

\* C18: never two commands in flight, and when a call has rung the doorbell
\* no response of an earlier command is waiting in CMD_RESPONSE_STATUS, so
\* the response a successful call reads is the one to its own command.
C18_OneInFlightNoStaleResponse ==
    /\ ~(InFlightInRegister /\ InFlightInSequencer)
    /\ DoorbellJustRung =>
          IOSSM_STATUS_COMMAND_RESPONSE_READY(reg["CMD_RESPONSE_STATUS"]) = 0

(***************************************************************************)
(* io96b_cal_status: the initial check of one instance.  Each round of the *)
(* loop tests the timer and reads the status register twice; hist holds    *)
(* the reads.                                                              *)
(***************************************************************************)
\* what the status register of an instance can read as: bit 0 success,
\* bit 1 fail
CalStatusVals == 0..3
IOSSM_STATUS_CAL_SUCCESS(v) == v % 2
IOSSM_STATUS_CAL_FAIL(v) == (v \div 2) % 2

CalLocals == [cal_success |-> 0, cal_fail |-> 0, ret |-> "none", rounds |-> 0]

\* a pass whenever the success bit was seen
CalPassedOnSuccess(cal_success, cal_fail) == cal_success # 0

\* if (cal_success && !cal_fail)
CalPassed(cal_success, cal_fail) == cal_success # 0 /\ cal_fail = 0

\* the test of the timer without its hang()
CalTimerNeverExpires ==
    /\ fpc = "cal:timer"
    /\ loc.rounds < MaxCalPolls
    /\ fpc' = "cal:read_success"
    /\ loc' = [loc EXCEPT !.rounds = loc.rounds + 1]
    /\ UNCHANGED <<ctrl, usr_resp, hist>>
    /\ UNCHANGED mbVars

\* if (get_timer(start) > TIMEOUT_60000MS) hang(); the timer has expired at
\* the latest after MaxCalPolls rounds
CalTimer ==
    /\ fpc = "cal:timer"
    /\ \/ /\ fpc' = "cal:hang"
          /\ UNCHANGED loc
       \/ /\ loc.rounds < MaxCalPolls
          /\ fpc' = "cal:read_success"
          /\ loc' = [loc EXCEPT !.rounds = loc.rounds + 1]
    /\ UNCHANGED <<ctrl, usr_resp, hist>>
    /\ UNCHANGED mbVars

\* cal_success = readl(status_addr) & IOSSM_STATUS_CAL_SUCCESS
CalReadSuccess ==
    /\ fpc = "cal:read_success"
    /\ \E v \in CalStatusVals :
         /\ hist' = Append(hist, LiveRead(0, loc.rounds, Zero, v))
         /\ loc' = [loc EXCEPT !.cal_success = IOSSM_STATUS_CAL_SUCCESS(v)]
    /\ fpc' = "cal:read_fail"
    /\ UNCHANGED <<ctrl, usr_resp>>
    /\ UNCHANGED mbVars

\* cal_fail = readl(status_addr) & IOSSM_STATUS_CAL_FAIL, the loop condition
\* and the result
CalReadFail ==
    /\ fpc = "cal:read_fail"
    /\ \E v \in CalStatusVals :
         LET cal_fail == 2 * IOSSM_STATUS_CAL_FAIL(v) IN
         /\ hist' = Append(hist, LiveRead(0, loc.rounds, Zero, v))
         /\ IF loc.cal_success = 0 /\ cal_fail = 0
            THEN /\ loc' = [loc EXCEPT !.cal_fail = cal_fail]
                 /\ fpc' = "cal:timer"
            ELSE /\ loc' = [loc EXCEPT !.cal_fail = cal_fail,
                               !.ret = IF CalPassed(loc.cal_success, cal_fail)
                                       THEN 0 ELSE -EPERM]
                 /\ fpc' = "cal:done"
    /\ UNCHANGED <<ctrl, usr_resp>>
    /\ UNCHANGED mbVars

InitCal ==
    /\ InitMb
    /\ ctrl = NoCtrl
    /\ fpc = "cal:timer"
    /\ loc = CalLocals
    /\ usr_resp = ZeroResp
    /\ hist = <<>>

NextCal == CalTimer \/ CalReadSuccess \/ CalReadFail
SpecCal == InitCal /\ [][NextCal]_vars

\* the two reads of round n: the one the success bit is taken from and the
\* one the fail bit is taken from
SuccessSeen(n) == IOSSM_STATUS_CAL_SUCCESS(hist[2 * n - 1].val) = 1
FailSeen(n) == IOSSM_STATUS_CAL_FAIL(hist[2 * n].val) = 1
RoundsRead == 1..(Len(hist) \div 2)

\* C20: io96b_cal_status returns a pass only when its last round saw the
\* success bit set and the fail bit clear; it returns -EPERM when that
\* round saw both set; it halts, without ever returning, only when no round
\* saw either bit, and it polls on as long as neither is seen.
C20_PassOnlyOnSuccessWithoutFail ==
    /\ (fpc = "cal:done" /\ loc.ret = 0) =>
          (SuccessSeen(loc.rounds) /\ ~FailSeen(loc.rounds))
    /\ (fpc = "cal:done" /\ SuccessSeen(loc.rounds) /\ FailSeen(loc.rounds)) =>
          loc.ret = -EPERM
    /\ fpc = "cal:done" => (loc.ret \in {0, -EPERM} /\ Len(hist) = 2 * loc.rounds)
    /\ fpc = "cal:hang" =>
          /\ loc.ret = "none"
          /\ Len(hist) = 2 * loc.rounds
          /\ \A n \in RoundsRead : ~SuccessSeen(n) /\ ~FailSeen(n)
    /\ \A n \in RoundsRead :
          (n < loc.rounds) => (~SuccessSeen(n) /\ ~FailSeen(n))

\* both bits seen in the second round, after a first round that saw neither
C20_Witness ==
    /\ fpc = "cal:done"
    /\ loc.rounds = 2
    /\ SuccessSeen(2)
    /\ FailSeen(2)
    /\ loc.ret = -EPERM

(***************************************************************************)
(* init_mem_cal, and the DDR path of sdram_mmr_init_full from its entry to *)
(* the call of get_mem_technology.  A call of io96b_cal_status is one step *)
(* whose result is one SpecCal can end with.                               *)
(***************************************************************************)
CalOutcomes == {"pass", "fail", "halt"}
CalRet(o) == IF o = "pass" THEN 0 ELSE -EPERM

\* one entry of hist: a call of io96b_cal_status that returned
CalCheck(i, o) ==
    [op |-> "io96b_cal_status", i |-> i, j |-> 0, ip_type |-> 0, instance_id |-> 0,
     ret |-> CalRet(o), resp |-> ZeroResp, off |-> Zero, val |-> 0]

\* the overall flag never set
InitCalOverallNever(count, n) == FALSE

\* if (count == io96b_ctrl->num_instance)
InitCalOverall(count, n) == count = n

\* ckgen_lock is false on this path, so the PLL lock is not polled
InitCalEnter ==
    /\ fpc = "init_cal:entry"
    /\ ctrl' = [ctrl EXCEPT !.overall_cal_status = FALSE]
    /\ loc' = [loc EXCEPT !.i = 0, !.count = 0]
    /\ fpc' = "init_cal:check"
    /\ UNCHANGED <<usr_resp, hist>>
    /\ UNCHANGED mbVars

\* one round of the loop over the instances, or the end of the function
InitCalCheck ==
    /\ fpc = "init_cal:check"
    /\ IF loc.i >= ctrl.num_instance
       THEN /\ ctrl' = [ctrl EXCEPT !.overall_cal_status =
                           IF InitCalOverall(loc.count, ctrl.num_instance)
                           THEN TRUE ELSE ctrl.overall_cal_status]
            /\ fpc' = "init_cal:done"
            /\ UNCHANGED <<loc, hist>>
       ELSE \E o \in CalOutcomes :
              IF o = "halt"
              THEN /\ fpc' = "init_cal:hang"
                   /\ UNCHANGED <<ctrl, loc, hist>>
              ELSE /\ hist' = Append(hist, CalCheck(loc.i, o))
                   /\ IF CalRet(o) # 0
                      THEN /\ ctrl' = [ctrl EXCEPT !.io96b[loc.i].cal_status = FALSE]
                           /\ loc' = [loc EXCEPT !.ret = CalRet(o)]
                           /\ fpc' = "init_cal:hang"
                      ELSE /\ ctrl' = [ctrl EXCEPT !.io96b[loc.i].cal_status = TRUE]
                           /\ loc' = [loc EXCEPT !.ret = 0, !.i = loc.i + 1,
                                                 !.count = loc.count + 1]
                           /\ fpc' = "init_cal:check"
    /\ UNCHANGED usr_resp
    /\ UNCHANGED mbVars

\* the locals of sdram_mmr_init_full next to those of the function it runs:
\* the calls of init_mem_cal made and ddr_ecc_dbe_status() as read at line 967
BootLocals == [cal_calls |-> 0, dbe |-> FALSE] @@ NoLocals

\* populate_ddr_handoff, then the first init_mem_cal
BootStart ==
    /\ fpc = "boot:entry"
    /\ \/ /\ fpc' = "boot:failed"
          /\ UNCHANGED loc
       \/ /\ fpc' = "init_cal:entry"
          /\ loc' = [loc EXCEPT !.cal_calls = 1]
    /\ UNCHANGED <<ctrl, usr_resp, hist>>
    /\ UNCHANGED mbVars

\* config_mpfe_sideband_mgr and the wait for the NOCPLL, then io96b_mb_init
BootMpfe ==
    /\ fpc = "init_cal:done"
    /\ loc.cal_calls = 1
    /\ \/ fpc' = "boot:failed"
       \/ fpc' = "mb_init:entry"
    /\ UNCHANGED <<ctrl, loc, usr_resp, hist>>
    /\ UNCHANGED mbVars

\* io96b_ctrl->io96b[i].cal_status with i left at num_instance by the loop
\* of line 968: the flag of an instance not in use, or what lies behind the
\* array
StaleFlags(c) ==
    IF c.num_instance < MAX_IO96B_SUPPORTED
    THEN {c.io96b[c.num_instance].cal_status}
    ELSE BOOLEAN

\* lines 967-972
DbeCleared(c, stale) ==
    [c EXCEPT !.io96b = [x \in Instances |->
                  IF x < c.num_instance
                  THEN [c.io96b[x] EXCEPT !.cal_status = FALSE]
                  ELSE c.io96b[x]],
              !.overall_cal_status = c.overall_cal_status /\ stale]

\* after io96b_mb_init: the double-bit-error handling and the choice of
\* lines 975-980
BootDbe ==
    /\ fpc = "mb_init:done"
    /\ \E dbe \in BOOLEAN, stale \in StaleFlags(ctrl) :
         LET c == IF dbe THEN DbeCleared(ctrl, stale) ELSE ctrl IN
         /\ ctrl' = c
         /\ IF ~c.overall_cal_status
            THEN /\ loc' = [loc EXCEPT !.dbe = dbe, !.cal_calls = loc.cal_calls + 1]
                 /\ fpc' = "init_cal:entry"
            ELSE /\ loc' = [loc EXCEPT !.dbe = dbe]
                 /\ fpc' = "tech:entry"
    /\ UNCHANGED <<usr_resp, hist>>
    /\ UNCHANGED mbVars

\* after the init_mem_cal of line 977: "Calibration success", then
\* get_mem_technology
BootCalSuccess ==
    /\ fpc = "init_cal:done"
    /\ loc.cal_calls > 1
    /\ fpc' = "tech:entry"
    /\ UNCHANGED <<ctrl, loc, usr_resp, hist>>
    /\ UNCHANGED mbVars

InitBoot ==
    /\ InitMb
    /\ ctrl \in CtrlUninit
    /\ fpc = "boot:entry"
    /\ loc = BootLocals
    /\ usr_resp = ZeroResp
    /\ hist = <<>>

NextBoot ==
    \/ BootStart
    \/ InitCalEnter
    \/ InitCalCheck
    \/ BootMpfe
    \/ MbInitEnter
    \/ MbInitQuery
    \/ BootDbe
    \/ BootCalSuccess

SpecBoot == InitBoot /\ [][NextBoot]_vars

InUse == {x \in Instances : x < ctrl.num_instance}
AllCalStatus == \A x \in InUse : ctrl.io96b[x].cal_status
ChecksPassed == {p \in DOMAIN hist : hist[p].op = "io96b_cal_status" /\ hist[p].ret = 0}
ChecksFailed == {p \in DOMAIN hist : hist[p].op = "io96b_cal_status" /\ hist[p].ret # 0}
RetryCommands ==
    {p \in DOMAIN hist : hist[p].op \in {"TRIG_MEM_CAL", "GET_MEM_CAL_STATUS"}}

\* C11: when every instance passes its initial check init_mem_cal returns
\* with every cal_status and overall_cal_status true, it returns only then,
\* and the boot sequence that follows sends no TRIG_MEM_CAL.
C11_AllPassedNoRetry ==
    /\ fpc = "init_cal:done" =>
          /\ Cardinality(ChecksPassed) = loc.cal_calls * ctrl.num_instance
          /\ ChecksFailed = {}
          /\ AllCalStatus
          /\ ctrl.overall_cal_status
    /\ (fpc \in {"mb_init:entry", "mb_init:query", "mb_init:done"}) =>
          (AllCalStatus /\ ctrl.overall_cal_status)
    /\ (fpc = "tech:entry" /\ ~loc.dbe) =>
          (AllCalStatus /\ ctrl.overall_cal_status /\ loc.cal_calls = 1)
    /\ \A p \in DOMAIN hist : hist[p].op # "TRIG_MEM_CAL"

\* 2 instances with 1 interface each, both passed, at the first property query
C11_Witness ==
    /\ fpc = "tech:entry"
    /\ ~loc.dbe
    /\ ctrl.num_instance = 2
    /\ \A x \in InUse : ctrl.io96b[x].mb_ctrl.num_mem_interface = 1
    /\ Cardinality(ChecksPassed) = 2
    /\ AllCalStatus
    /\ ctrl.overall_cal_status

\* C12: whenever trig_mem_cal has returned, overall_cal_status is true
\* exactly when the cal_status of every instance is true.
C12_OverallIsAndOfInstances ==
    fpc = "trig:done" => (ctrl.overall_cal_status <=> AllCalStatus)

\* C13: on the DDR path, once the double-bit-error handling is done,
\* overall_cal_status is not true while the cal_status of some instance is
\* false, and with the error status set the calibration is run again before
\* "Calibration success" and the first property query.
C13_DbeForcesRecalibration ==
    fpc = "tech:entry" =>
        /\ ctrl.overall_cal_status => AllCalStatus
        /\ loc.dbe => loc.cal_calls > 1

\* C19: an initial check that returned a failure does not end the boot; the
\* retry commands for the instance are sent.
C19_FailedCheckEntersRetry ==
    ChecksFailed # {} => (fpc # "init_cal:hang" \/ RetryCommands # {})

(***************************************************************************)
(* bist_mem_init_start.                                                    *)
(***************************************************************************)
\* short data of BIST_MEM_INIT_START: accepted, or rejected with a sub-code
BistStartStatus == {W(1, 1), W(2, 1)}
\* short data of BIST_MEM_INIT_STATUS: still running, or done
BistPollStatus == {W(0, 1), W(1, 1)}

\* bit 1 of the short data taken for bit 0
BistBitOne(r) == (IOSSM_CMD_RESPONSE_DATA_SHORT(r.cmd_resp_status) \div 2) % 2 = 1

\* any short data taken as set
BistBitAlways(r) == TRUE

\* IOSSM_CMD_RESPONSE_DATA_SHORT(usr_resp.cmd_resp_status) & BIT(0)
BistBit(r) == IOSSM_CMD_RESPONSE_DATA_SHORT(r.cmd_resp_status) % 2 = 1

\* the locals of bist_mem_init_start: polls counts the status commands sent
\* since start = get_timer(0)
BistLocals == [polls |-> 0] @@ NoLocals

BistEnter ==
    /\ fpc = "bist:entry"
    /\ LET p == Pos(ctrl, 0, 0) IN
       /\ loc' = [loc EXCEPT !.i = p[1], !.j = p[2], !.ret = 0]
       /\ fpc' = IF AtEnd(ctrl, p) THEN "bist:done" ELSE "bist:start"
    /\ UNCHANGED <<ctrl, usr_resp, hist>>
    /\ UNCHANGED mbVars

\* BIST_MEM_INIT_START for interface j and the test of its acceptance
BistStart ==
    /\ fpc = "bist:start"
    /\ \E o \in MbOutcomes(0, BistStartStatus, NoData) :
         /\ usr_resp' = o.resp
         /\ hist' = Append(hist, Cmd("BIST_MEM_INIT_START", loc.i, loc.j,
                                     IpTypeAt(ctrl, loc.i, loc.j),
                                     InstanceIdAt(ctrl, loc.i, loc.j), o))
         /\ IF o.ret # 0
            THEN /\ loc' = [loc EXCEPT !.ret = o.ret]
                 /\ fpc' = "bist:done"
            ELSE IF ~BistBit(o.resp)
            THEN /\ loc' = [loc EXCEPT !.ret = -ENOEXEC]
                 /\ fpc' = "bist:done"
            ELSE /\ loc' = [loc EXCEPT !.ret = 0, !.polls = 0]
                 /\ fpc' = "bist:status"
    /\ UNCHANGED ctrl
    /\ UNCHANGED mbVars

\* one round of while (!bist_success): BIST_MEM_INIT_STATUS, whose return
\* value is not looked at, then the timer; the timer has expired at the
\* latest after MaxPolls further rounds
BistStatus ==
    /\ fpc = "bist:status"
    /\ \E o \in MbOutcomes(0, BistPollStatus, NoData) :
         /\ usr_resp' = o.resp
         /\ hist' = Append(hist, Cmd("BIST_MEM_INIT_STATUS", loc.i, loc.j,
                                     IpTypeAt(ctrl, loc.i, loc.j),
                                     InstanceIdAt(ctrl, loc.i, loc.j), o))
         /\ IF BistBit(o.resp)
            THEN LET p == Pos(ctrl, loc.i, loc.j + 1) IN
                 /\ loc' = [loc EXCEPT !.i = p[1], !.j = p[2]]
                 /\ fpc' = IF AtEnd(ctrl, p) THEN "bist:done" ELSE "bist:start"
            ELSE \/ /\ loc' = [loc EXCEPT !.ret = -ETIMEDOUT]
                    /\ fpc' = "bist:done"
                 \/ /\ loc.polls < MaxPolls
                    /\ loc' = [loc EXCEPT !.polls = loc.polls + 1]
                    /\ fpc' = "bist:status"
    /\ UNCHANGED ctrl
    /\ UNCHANGED mbVars

InitBist ==
    /\ InitMb
    /\ ctrl \in CtrlAfterInit
    /\ fpc = "bist:entry"
    /\ loc = BistLocals
    /\ usr_resp = ZeroResp
    /\ hist = <<>>

NextBist == BistEnter \/ BistStart \/ BistStatus
SpecBist == InitBist /\ [][NextBist]_vars

\* the operation has ended: it returned, or it halted the boot
OperationEnded ==
    fpc \in {"mb_init:hang", "tech:done", "width:done", "ecc:done", "bist:done"}

SuccessPath ==
    /\ mb_pc = "done"
    /\ ret = 0
    /\ args.resp_data_len <= NUM_CMD_RESPONSE_DATA

\* C27: a successful call asking for n data words (n in 0..3) has read the
\* status register before any data register, has read exactly the data
\* registers 0..n-1, each once and in ascending order, has stored word i in
\* response slot i and left slots n..2 at 0, and has done all these reads
\* before it wrote the ready bit away.
C27_DataReadsInOrder ==
    SuccessPath =>
        /\ \A n \in DataSlots :
              Cardinality(ReadsOf(DataReg(n))) = (IF n < args.resp_data_len THEN 1 ELSE 0)
        /\ \A n \in DataSlots : \A k \in ReadsOf(DataReg(n)) :
              /\ \E j \in ReadsOf("CMD_RESPONSE_STATUS") :
                    j < k /\ IOSSM_STATUS_COMMAND_RESPONSE_READY(log[j].val) = 1
              /\ resp.cmd_resp_data[n] = log[k].val
              /\ \A m \in DataSlots : \A l \in ReadsOf(DataReg(m)) : m < n => l < k
              /\ \A w \in WritesOf("CMD_RESPONSE_STATUS") : k < w
        /\ \A n \in DataSlots : n >= args.resp_data_len => resp.cmd_resp_data[n] = Zero
        /\ Cardinality(WritesOf("CMD_RESPONSE_STATUS")) = 1

\* two words asked for while the third data register holds a word too
C27_Witness ==
    /\ SuccessPath
    /\ args.resp_data_len = 2
    /\ resp.cmd_resp_data[0] # Zero
    /\ resp.cmd_resp_data[1] # Zero
    /\ resp.cmd_resp_data[2] = Zero
    /\ reg[DataReg(2)] # Zero

(***************************************************************************)
(* The request word: io96b_mb_req from the write of CMD_REQ on, for field  *)
(* values at and beyond the edges of their bit ranges.                     *)
(***************************************************************************)
ReqOpcodes == {0, 1, 65535}
ReqTypes == {0, 1, 255, 256}
ReqInstanceIds == {0, 1, 31, 32}
ReqIpTypes == {0, 1, 7, 8}
ReqArgs == {[NoArgs EXCEPT !.usr_cmd_opcode = op, !.usr_cmd_type = ty,
                           !.instance_id = id, !.ip_type = ip] :
            op \in ReqOpcodes, ty \in ReqTypes, id \in ReqInstanceIds, ip \in ReqIpTypes}

InitReq ==
    /\ reg = [r \in RegNames |-> Zero]
    /\ mb_pc = "doorbell"
    /\ args \in ReqArgs
    /\ resp = ZeroResp
    /\ ret = 0
    /\ cmd_resp = Zero
    /\ polls = 0
    /\ log = <<Rd("CMD_REQ", Zero)>>
    /\ seq = Zero
    /\ InitFn

NextReq == Doorbell
SpecReq == InitReq /\ [][NextReq]_vars

\* opcode + cmd_type * 2^16 + instance_id * 2^24 + ip_type * 2^29 mod 2^32,
\* for an opcode below 2^16
SumWord(a) ==
    W((a.usr_cmd_type + a.instance_id * 256 + a.ip_type * 8192) % 65536,
      a.usr_cmd_opcode % 65536)

FieldsInRange(a) ==
    /\ a.usr_cmd_opcode < 65536
    /\ a.usr_cmd_type < 256
    /\ a.instance_id < 32
    /\ a.ip_type < 8

\* the fields read back out of a request word
FieldsOf(w) ==
    [usr_cmd_opcode |-> w.lo, usr_cmd_type |-> w.hi % 256,
     instance_id |-> (w.hi \div 256) % 32, ip_type |-> w.hi \div 8192]
FieldsGiven(a) ==
    [usr_cmd_opcode |-> a.usr_cmd_opcode, usr_cmd_type |-> a.usr_cmd_type,
     instance_id |-> a.instance_id, ip_type |-> a.ip_type]

DoorbellWritten == mb_pc = "wait_ready" /\ log[Len(log)] = Wr("CMD_REQ", reg["CMD_REQ"])

\* C29 as stated: the word written to CMD_REQ is the sum of the shifted
\* fields mod 2^32, and for fields within their ranges each field can be
\* read back out of the word.
C29_WordIsSumOfFields ==
    DoorbellWritten =>
        /\ reg["CMD_REQ"] = SumWord(args)
        /\ FieldsInRange(args) => FieldsOf(reg["CMD_REQ"]) = FieldsGiven(args)

\* C29: for fields within their ranges the word written to CMD_REQ is the
\* sum of the shifted fields and each field can be read back out of it, so
\* distinct tuples give distinct words; for any fields the word is the
\* bitwise OR of the shifted fields, cut to 32 bits.
C29_WordPacksFieldsInRange ==
    DoorbellWritten =>
        /\ FieldsInRange(args) =>
              /\ reg["CMD_REQ"] = SumWord(args)
              /\ FieldsOf(reg["CMD_REQ"]) = FieldsGiven(args)
        /\ reg["CMD_REQ"].lo = args.usr_cmd_opcode % 65536
        /\ reg["CMD_REQ"].hi =
              Or16(Or16(args.usr_cmd_type % 65536, (args.instance_id * 256) % 65536, 16),
                   (args.ip_type * 8192) % 65536, 16)

\* every field at the top of its range
C29_Witness ==
    /\ DoorbellWritten
    /\ args.usr_cmd_opcode = 65535
    /\ args.usr_cmd_type = 255
    /\ args.instance_id = 31
    /\ args.ip_type = 7
    /\ reg["CMD_REQ"] = W(65535, 65535)

(***************************************************************************)
(* The order of the commands and live reads of trig_mem_cal.               *)
(***************************************************************************)
\* C22: every TRIG_MEM_CAL of interface j carries the IP type and instance
\* id recorded for j; every read of the live status register directly
\* follows a successful GET_MEM_CAL_STATUS and uses data word j of that
\* response as its offset; a TRIG_MEM_CAL directly follows a failing read
\* and is followed by exactly one GET_MEM_CAL_STATUS before the next read.
C22_TriggerThenRequeryThenRead ==
    \A p \in DOMAIN hist :
        /\ hist[p].op = "TRIG_MEM_CAL" =>
              /\ hist[p].i = loc.i /\ hist[p].j = loc.j
              /\ hist[p].ip_type = IpTypeAt(ctrl, loc.i, loc.j)
              /\ hist[p].instance_id = InstanceIdAt(ctrl, loc.i, loc.j)
              /\ p > 1 /\ hist[p - 1].op = "readl"
              /\ p < Len(hist) => hist[p + 1].op = "GET_MEM_CAL_STATUS"
        /\ hist[p].op = "readl" =>
              /\ p > 1
              /\ hist[p - 1].op = "GET_MEM_CAL_STATUS"
              /\ hist[p - 1].ret = 0
              /\ hist[p].off = hist[p - 1].resp.cmd_resp_data[hist[p].j]
              /\ p > 2 => hist[p - 2].op = "TRIG_MEM_CAL"
        /\ (hist[p].op = "GET_MEM_CAL_STATUS" /\ p > 1) =>
              hist[p - 1].op = "TRIG_MEM_CAL"

\* interface 1 read a second time, at an offset the re-query changed
C22_Witness ==
    /\ Len(hist) >= 5
    /\ loc.j = 1
    /\ hist[5].op = "readl"
    /\ hist[2].op = "readl"
    /\ hist[5].off # hist[2].off
    /\ hist[5].off = hist[4].resp.cmd_resp_data[1]
    /\ hist[3].ip_type = 5

\* C21: trig_mem_cal turns the cal_status of an instance to true only when
\* the live status of every interface of the instance has read as success
\* in this call; when it returns an error the instance it was at stays
\* failed and nothing behind it was touched; an instance that was passed on
\* entry gets no command.
C21_PassedOnlyWhenAllRecovered ==
    fpc # "trig:entry" =>
        /\ \A x \in InUse :
              /\ (ctrl.io96b[x].cal_status /\ ~loc.entry[x]) =>
                    \A n \in IntfSlots :
                        n < ctrl.io96b[x].mb_ctrl.num_mem_interface =>
                            <<x, n>> \in loc.recovered
              /\ loc.entry[x] => (x \notin loc.commanded /\ ctrl.io96b[x].cal_status)
        /\ (fpc = "trig:done" /\ loc.ret # 0) =>
              /\ ~ctrl.io96b[loc.i].cal_status
              /\ \A x \in InUse : x > loc.i =>
                    /\ x \notin loc.commanded
                    /\ ctrl.io96b[x].cal_status = loc.entry[x]
              /\ \A q \in loc.recovered :
                    q[1] < loc.i \/ (q[1] = loc.i /\ q[2] < loc.j)

\* the second interface of instance 0 ran out of retries after the first
\* had recovered, with a failed instance 1 behind it
C21_Witness ==
    /\ fpc = "trig:done"
    /\ loc.ret = -EPERM
    /\ ctrl.num_instance = 2
    /\ loc.i = 0
    /\ loc.j = 1
    /\ <<0, 0>> \in loc.recovered
    /\ ~ctrl.io96b[0].cal_status
    /\ ~loc.entry[1]
    /\ ~ctrl.io96b[1].cal_status

\* bit 0 of the short data of the response of event e
ShortBit0(e) == IOSSM_CMD_RESPONSE_DATA_SHORT(e.resp.cmd_resp_status) % 2

\* the interfaces bist_mem_init_start goes through
BistInterfaces ==
    {q \in InUse \X IntfSlots : q[2] < ctrl.io96b[q[1]].mb_ctrl.num_mem_interface}

\* C25: a BIST_MEM_INIT_START that was answered with bit 0 of the short data
\* clear is the last command of bist_mem_init_start, which has returned
\* -ENOEXEC: no BIST_MEM_INIT_STATUS follows for the interface and no later
\* interface is started.
C25_RejectedStartEndsBist ==
    \A p \in DOMAIN hist :
        (/\ hist[p].op = "BIST_MEM_INIT_START"
         /\ hist[p].ret = 0
         /\ ShortBit0(hist[p]) = 0) =>
            /\ p = Len(hist)
            /\ fpc = "bist:done"
            /\ loc.ret = -ENOEXEC

\* the second interface's start was rejected after the first had finished,
\* with a further interface still to do
C25_Witness ==
    /\ fpc = "bist:done"
    /\ loc.ret = -ENOEXEC
    /\ Len(hist) >= 3
    /\ hist[Len(hist)].op = "BIST_MEM_INIT_START"
    /\ ShortBit0(hist[Len(hist)]) = 0
    /\ hist[Len(hist) - 1].op = "BIST_MEM_INIT_STATUS"
    /\ \E q \in BistInterfaces :
          q[1] > loc.i \/ (q[1] = loc.i /\ q[2] > loc.j)

\* C26: bist_mem_init_start returns 0 only when every interface had its
\* start accepted and then a BIST_MEM_INIT_STATUS answered with the success
\* bit; a start is sent only after the interface before it was seen to
\* succeed, a status only after an accepted start of the same interface;
\* the number of status commands is bounded by the timer alone, and a
\* status without success that ends the call ends it with -ETIMEDOUT.
C26_SuccessNeedsEveryInterfaceDone ==
    /\ (fpc = "bist:done" /\ loc.ret = 0) =>
          \A q \in BistInterfaces :
              \E a \in DOMAIN hist, b \in DOMAIN hist :
                  /\ a < b
                  /\ hist[a].op = "BIST_MEM_INIT_START"
                  /\ hist[a].i = q[1] /\ hist[a].j = q[2]
                  /\ hist[a].ret = 0 /\ ShortBit0(hist[a]) = 1
                  /\ hist[b].op = "BIST_MEM_INIT_STATUS"
                  /\ hist[b].i = q[1] /\ hist[b].j = q[2]
                  /\ ShortBit0(hist[b]) = 1
    /\ \A p \in DOMAIN hist :
          /\ (hist[p].op = "BIST_MEM_INIT_START" /\ p > 1) =>
                /\ hist[p - 1].op = "BIST_MEM_INIT_STATUS"
                /\ ShortBit0(hist[p - 1]) = 1
                /\ \/ hist[p - 1].i < hist[p].i
                   \/ hist[p - 1].i = hist[p].i /\ hist[p - 1].j < hist[p].j
          /\ hist[p].op = "BIST_MEM_INIT_STATUS" =>
                /\ p > 1
                /\ hist[p - 1].i = hist[p].i /\ hist[p - 1].j = hist[p].j
                /\ \/ /\ hist[p - 1].op = "BIST_MEM_INIT_START"
                      /\ hist[p - 1].ret = 0 /\ ShortBit0(hist[p - 1]) = 1
                   \/ /\ hist[p - 1].op = "BIST_MEM_INIT_STATUS"
                      /\ ShortBit0(hist[p - 1]) = 0
          /\ (/\ hist[p].op = "BIST_MEM_INIT_STATUS"
              /\ ShortBit0(hist[p]) = 0
              /\ p = Len(hist)
              /\ fpc = "bist:done") => loc.ret = -ETIMEDOUT

\* two interfaces done, the first after a status that was still running
C26_Witness ==
    /\ fpc = "bist:done"
    /\ loc.ret = 0
    /\ Cardinality(BistInterfaces) >= 2
    /\ Len(hist) >= 5
    /\ hist[2].op = "BIST_MEM_INIT_STATUS" /\ ShortBit0(hist[2]) = 0
    /\ hist[3].op = "BIST_MEM_INIT_STATUS" /\ ShortBit0(hist[3]) = 1

\* the timer ran out on an interface that was still running
C26_WitnessTimeout ==
    /\ fpc = "bist:done"
    /\ loc.ret = -ETIMEDOUT
    /\ Len(hist) >= 2
    /\ hist[Len(hist)].op = "BIST_MEM_INIT_STATUS"
    /\ hist[Len(hist)].ret = 0
    /\ ShortBit0(hist[Len(hist)]) = 0

\* the GET_MEM_INTF_INFO commands sent for instance x
TableQueries(x) ==
    {p \in DOMAIN hist : hist[p].op = "GET_MEM_INTF_INFO" /\ hist[p].i = x}

\* C23: on the DDR path of sdram_mmr_init_full the table of an instance is
\* populated once, by the one GET_MEM_INTF_INFO of io96b_mb_init, and
\* when get_mem_technology, the first sender of commands addressed by IP
\* type and instance id, is entered, every instance in use has its table as
\* that command's response left it and no addressed command has been sent.
C23_TablePopulatedOnceBeforeQueries ==
    /\ \A x \in Instances : Cardinality(TableQueries(x)) <= 1
    /\ \A p \in DOMAIN hist :
          hist[p].op \in {"GET_MEM_INTF_INFO", "io96b_cal_status"}
    /\ fpc = "tech:entry" =>
          \A x \in InUse :
              \E a \in TableQueries(x) :
                  /\ hist[a].ret = 0
                  /\ \E g \in Garbage :
                        ctrl.io96b[x].mb_ctrl =
                            MbInitTable(GarbageTable(g), hist[a].resp)

\* get_mem_technology is entered with two instances populated, after the
\* second init_mem_cal
C23_Witness ==
    /\ fpc = "tech:entry"
    /\ ctrl.num_instance = 2
    /\ loc.cal_calls = 2
    /\ Cardinality(TableQueries(0)) = 1
    /\ Cardinality(TableQueries(1)) = 1
    /\ ctrl.io96b[1].mb_ctrl.num_mem_interface = 2
    /\ ctrl.io96b[1].mb_ctrl.ip_type[1] = 5

\* ---------------------------------------------------------------------
\* init_mem_cal behind the clock-lock gate: is_ddr_csr_clkgen_locked
\* ---------------------------------------------------------------------

\* the four tests of is_ddr_csr_clkgen_locked in the order of the code:
\* IO96B0 PLL A, IO96B0 PLL B, IO96B1 PLL A, IO96B1 PLL B
Channels == 0..3
PllMasks == 0..15

\* FIELD_GET(IO96Bx_PLL_y_MASK, io96b_pll): one bit of the mask per channel
PllSelected(pll, ch) == (pll \div (2 ^ ch)) % 2 = 1

\* the first test at or behind ch whose channel is selected, 4 when none is
RECURSIVE NextChannel(_, _)
NextChannel(pll, ch) ==
    IF ch > 3 THEN 4
    ELSE IF PllSelected(pll, ch) THEN ch
    ELSE NextChannel(pll, ch + 1)

\* one wait_for_bit_le32 on the lock bit of channel ch and what it returned
ClkWait(ch, r) ==
    [op |-> "wait_for_bit_le32", i |-> ch \div 2, j |-> ch, ip_type |-> 0,
     instance_id |-> 0, ret |-> r, resp |-> ZeroResp, off |-> Zero, val |-> 0]

\* the gate taken as not configured
ClkgenGateOff(c) == FALSE

\* if (io96b_ctrl->ckgen_lock)
ClkgenGate(c) == c.ckgen_lock

\* the entry of init_mem_cal up to the first wait, or to the loop of the
\* checks when there is nothing to wait for; loc.k is the test
\* is_ddr_csr_clkgen_locked is at
InitCalGate ==
    /\ fpc = "init_cal:entry"
    /\ ctrl' = [ctrl EXCEPT !.overall_cal_status = FALSE]
    /\ LET ch == IF ClkgenGate(ctrl) THEN NextChannel(ctrl.io96b_pll, 0) ELSE 4 IN
       /\ loc' = [loc EXCEPT !.i = 0, !.count = 0, !.k = ch, !.ret = 0]
       /\ fpc' = IF ch < 4 THEN "clkgen:wait" ELSE "init_cal:check"
    /\ UNCHANGED <<usr_resp, hist>>
    /\ UNCHANGED mbVars

\* one wait_for_bit_le32 of is_ddr_csr_clkgen_locked: the bit was seen set,
\* or the wait timed out, which init_mem_cal answers with hang()
ClkgenWait ==
    /\ fpc = "clkgen:wait"
    /\ \E r \in {0, -ETIMEDOUT} :
         /\ hist' = Append(hist, ClkWait(loc.k, r))
         /\ IF r # 0
            THEN /\ loc' = [loc EXCEPT !.ret = r]
                 /\ fpc' = "init_cal:hang"
            ELSE LET ch == NextChannel(ctrl.io96b_pll, loc.k + 1) IN
                 /\ loc' = [loc EXCEPT !.ret = 0, !.k = ch]
                 /\ fpc' = IF ch < 4 THEN "clkgen:wait" ELSE "init_cal:check"
    /\ UNCHANGED <<ctrl, usr_resp>>
    /\ UNCHANGED mbVars

\* struct io96b_info with the gate's two fields, as a caller may leave them
CtrlGated ==
    {[ckgen_lock |-> l, io96b_pll |-> m] @@ c :
     l \in BOOLEAN, m \in PllMasks, c \in CtrlUninit}

InitCkgen ==
    /\ InitMb
    /\ ctrl \in CtrlGated
    /\ fpc = "init_cal:entry"
    /\ loc = NoLocals
    /\ usr_resp = ZeroResp
    /\ hist = <<>>

NextCkgen == InitCalGate \/ ClkgenWait \/ InitCalCheck
SpecCkgen == InitCkgen /\ [][NextCkgen]_vars

\* the positions in hist of the waits and of the calibration checks
LockWaits == {p \in DOMAIN hist : hist[p].op = "wait_for_bit_le32"}
CalChecks == {p \in DOMAIN hist : hist[p].op = "io96b_cal_status"}

\* the loop of the calibration checks has been reached
ChecksReached ==
    fpc \in {"init_cal:check", "init_cal:done"} \/ CalChecks # {}

\* C24: with ckgen_lock set, init_mem_cal reaches the calibration checks
\* only after a wait on every channel selected in io96b_pll has returned
\* locked; a wait that timed out is the last thing done and the boot is
\* halted with no calibration check made; no channel outside the mask is
\* waited for, and each selected channel is waited for once, in order.
C24_ChecksOnlyBehindLocks ==
    ctrl.ckgen_lock =>
        /\ ChecksReached =>
              /\ \A ch \in Channels : PllSelected(ctrl.io96b_pll, ch) =>
                    \E p \in LockWaits : hist[p].j = ch /\ hist[p].ret = 0
              /\ \A p \in LockWaits, q \in CalChecks : p < q
        /\ \A p \in LockWaits :
              /\ PllSelected(ctrl.io96b_pll, hist[p].j)
              /\ \A q \in LockWaits : p < q => hist[p].j < hist[q].j
              /\ hist[p].ret # 0 =>
                    /\ p = Len(hist)
                    /\ fpc = "init_cal:hang"
                    /\ CalChecks = {}

\* channels 0 and 3 were seen locked, 1 and 2 are not in the mask, and the
\* first instance has been checked
C24_Witness ==
    /\ ctrl.ckgen_lock
    /\ ctrl.io96b_pll = 9
    /\ Len(hist) = 3
    /\ hist[1] = ClkWait(0, 0)
    /\ hist[2] = ClkWait(3, 0)
    /\ hist[3].op = "io96b_cal_status"

\* the second selected channel timed out
C24_WitnessTimeout ==
    /\ ctrl.ckgen_lock
    /\ ctrl.io96b_pll = 6
    /\ ctrl.num_instance = 2
    /\ fpc = "init_cal:hang"
    /\ hist = <<ClkWait(1, 0), ClkWait(2, -ETIMEDOUT)>>

\* ---------------------------------------------------------------------
\* Termination: every operation that waits, each from its own entry
\* ---------------------------------------------------------------------

\* the calls of io96b_mb_req taken here: with and without response data
LiveArgs == {a \in ArgSet : a.ip_type = 1 /\ a.resp_data_len \in {0, 2}
                            /\ a.cmd_param[0] # Zero /\ a.cmd_param[1] = Zero}

InitLive ==
    \/ Init
    \/ InitCal
    \/ InitCkgen
    \/ InitBist /\ ctrl.num_instance = 1
    \/ InitTrig /\ ctrl.num_instance = 1

\* a step of io96b_mb_req called on its own, or of the sequencer
MbReqStep ==
    /\ fpc = "none"
    /\ Next
    /\ args' \in LiveArgs

\* a step the processor takes inside io96b_mb_req
MbReqProgramStep ==
    /\ fpc = "none"
    /\ WaitIdle \/ WriteParams \/ Doorbell \/ WaitReady \/ ReadStatus \/ ReadData \/ Ack

NextLive == MbReqStep \/ NextCal \/ NextCkgen \/ NextBist \/ NextTrig

\* the processor keeps executing and the timer keeps advancing: a step of
\* the program that can be taken is taken; nothing is assumed of the
\* sequencer or of the caller's next call
ProgramStep == MbReqProgramStep \/ NextCal \/ NextCkgen \/ NextBist \/ NextTrig

SpecLive == InitLive /\ [][NextLive]_vars /\ WF_vars(ProgramStep)

\* where an operation has returned, and where it has halted the boot
Returned == {"cal:done", "init_cal:done", "bist:done", "trig:done"}
Halted == {"cal:hang", "init_cal:hang"}

\* an operation is under way
Running ==
    \/ mb_pc \notin {"idle", "done"}
    \/ fpc \notin ({"none"} \cup Returned \cup Halted)

\* C28: an operation that is under way returns or halts, whatever the
\* registers read: io96b_mb_req, io96b_cal_status, init_mem_cal behind
\* is_ddr_csr_clkgen_locked, bist_mem_init_start and trig_mem_cal; and
\* trig_mem_cal sends at most 3 TRIG_MEM_CAL per interface.
C28_EveryOperationEnds ==
    /\ [](Cardinality(Triggers) <= MAX_RETRY_COUNT)
    /\ Running ~> ~Running

\* io96b_cal_status back at the test of its timer after the last round the
\* timer allows, with neither bit read so far
C28_Witness ==
    /\ fpc = "cal:timer"
    /\ loc.rounds = MaxCalPolls
    /\ Len(hist) = 2 * MaxCalPolls
====
